--------------------------------- MODULE Serial ---------------------------------
(***************************************************************************)
(* The links from serial roles to serial ports (sysutil_serial.cpp): made  *)
(* anew each time the process starts, of the ports that are there at that  *)
(* moment, those of the board before all others.  /dev is gone with the    *)
(* power, but outlives the process, and adapters are plugged in and pulled *)
(* out at any time.  When the links are made is in module Device.          *)
(***************************************************************************)
EXTENDS Unit, Sequences, SequencesExt

CONSTANTS
  ScanNames,    \* the names of serial ports that may be found in /dev, sorted
  Aliases,      \* those that are symbolic links, and to what
  KnownSerials, \* known_platform_serials of each board
  BoardPorts,   \* the ports that each board has
  Adapters      \* the ports that come and go

ASSUME SerialAssumption ==
  /\ ScanNames \in Seq(ToSet(ScanNames)) /\ IsInjective(ScanNames)
  /\ DOMAIN Aliases \subseteq ToSet(ScanNames)
  /\ \A b \in Boards : BoardPorts[b] \cap Adapters = {} /\ BoardPorts[b] \cap DOMAIN Aliases = {}
  /\ Adapters \cap DOMAIN Aliases = {}
  /\ \A b \in Boards : KnownSerials[b] \in Seq(ToSet(ScanNames))
  /\ \A b \in Boards : (BoardPorts[b] \cup Adapters) \subseteq ToSet(ScanNames)
  /\ "none" \notin ToSet(ScanNames)

VARIABLES
  ports,    \* the ports there are
  occupied, \* roles whose name in /dev the image has given to something that is no link
  links,    \* what each role is a link to, "none" if there is no link
  scanned   \* history: the ports there were when the links were made

svars == <<ports, occupied, links, scanned>>

kSerialRoles == <<"Flight", "Tracker", "OpenHD", "Sbus">>
SerialRoles == DOMAIN kSerialRoles

\* weakly_canonical; a link that leads nowhere is no candidate.
Canonical(name) == IF name \in DOMAIN Aliases THEN Aliases[name] ELSE name
is_existing_serial_device(name) == Canonical(name) \in ports

append_candidate(found, name) ==
  IF is_existing_serial_device(name) /\ \A i \in DOMAIN found : Canonical(found[i]) # Canonical(name)
  THEN Append(found, name) ELSE found

Preference == [b \in Boards |-> KnownSerials[b] \o ScanNames]
discover_serial_candidates == FoldLeft(append_candidate, <<>>, Preference[board])

\* Two roles or all four; with a single port only the first.
role_count_for_candidate_count(n) == IF n >= 4 THEN 4 ELSE IF n >= 2 THEN 2 ELSE n

\* What create_role_link makes of the roles, given the links that are left.
Linked(left) ==
  LET found == discover_serial_candidates
  IN  [r \in SerialRoles |->
         IF left[r] = "none" /\ r \notin occupied /\ r <= role_count_for_candidate_count(Len(found))
         THEN found[r] ELSE left[r]]

\* A slip: stale links are left, and a link is not made where there is one.
LinkTheRest ==
  /\ links' = Linked(links)
  /\ scanned' = ports /\ UNCHANGED <<ports, occupied>>

\* link_serial_ports, after remove_stale_role_links.
link_serial_ports ==
  /\ links' = Linked([r \in SerialRoles |-> "none"])
  /\ scanned' = ports /\ UNCHANGED <<ports, occupied>>

\* An adapter is plugged in or pulled out.
AdapterChanges ==
  /\ \E a \in Adapters : ports' = (ports \ {a}) \cup ({a} \ ports)
  /\ UNCHANGED <<occupied, links, scanned>>

\* The power is gone, and /dev with it.
DevGone ==
  /\ links' = [r \in SerialRoles |-> "none"] /\ scanned' = {}
  /\ UNCHANGED <<ports, occupied>>

SerialInit ==
  /\ ports = BoardPorts[board] /\ scanned = {}
  /\ occupied \in {{}, {2}}
  /\ links = [r \in SerialRoles |-> "none"]

SerialTypeOK ==
  /\ ports \subseteq ToSet(ScanNames) /\ scanned \subseteq ToSet(ScanNames)
  /\ occupied \subseteq SerialRoles
  /\ links \in [SerialRoles -> ToSet(ScanNames) \cup {"none"}]

-----------------------------------------------------------------------------
\* The place of each port in the order in which the roles are given away.
Rank ==
  [b \in Boards |->
     [port \in {Canonical(n) : n \in ToSet(ScanNames)} |->
        CHOOSE i \in DOMAIN Preference[b] :
          /\ Canonical(Preference[b][i]) = port
          /\ \A j \in 1..(i - 1) : Canonical(Preference[b][j]) # port]]
Better(port) == {p \in scanned : Rank[board][p] < Rank[board][port]}

\* Whatever was linked before the process was restarted and whatever was plugged
\* in meanwhile, the links are those of a fresh boot with the ports found: a role
\* leads to the port with as many better ones as there are roles before it, so no
\* two roles to one port, under two names or because of a link from an earlier
\* start, and OpenHD and Sbus only get ports when there is one for each role.
RolesFollowPorts ==
  \A r \in SerialRoles :
    /\ links[r] # "none" <=>
         /\ r \notin occupied
         /\ \E p \in scanned : Cardinality(Better(p)) = (IF r <= 2 THEN r - 1 ELSE 3)
    /\ links[r] # "none" =>
         Canonical(links[r]) \in scanned /\ Cardinality(Better(Canonical(links[r]))) = r - 1

=============================================================================
