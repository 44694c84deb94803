---------------------------- MODULE UpdatePromise ----------------------------
(***************************************************************************)
(* What the update service promises to whoever copies a payload onto the   *)
(* boot partition, without threads, flags, hold files or stages: a payload *)
(* is in its owner's hands until a run has applied every file it took into *)
(* custody; a run that commits gives none of those files back; a run that  *)
(* fails or is interrupted has thrown nothing away.                        *)
(***************************************************************************)
EXTENDS Integers

CONSTANTS
  Sources,     \* the places a payload is looked for
  Files,       \* the files of payloads
  Useful,      \* the files a run has something to do with
  MayKeep      \* TRUE: the store may refuse to give files up

VARIABLES
  store,       \* the files in each source
  touches,     \* how often the owner changed the store
  phase,       \* fresh since the last restart, idle, working or committed
  from,        \* the source of the run
  custody,     \* its files, as long as the owner leaves them alone
  worked       \* files the run has worked through

promiseVars == <<store, touches, phase, from, custody, worked>>

PromiseInit ==
  /\ store = [s \in Sources |-> {}]
  /\ touches = 0
  /\ phase = "fresh"
  /\ custody = {}

Resting == phase \in {"fresh", "idle"}

\* Whatever the owner changes is no longer in the custody of a run.
Owner ==
  /\ touches' = touches + 1
  /\ store' \in [Sources -> SUBSET Files]
  /\ custody' \subseteq custody
  /\ UNCHANGED <<phase, from, worked>>

Start ==
  /\ Resting
  /\ phase' = "working"
  /\ custody' = {}
  /\ UNCHANGED <<store, touches>>

\* The run settles on a source, before it has worked on anything.
TakeCustody ==
  /\ phase = "working" /\ custody = {}
  /\ \E s \in Sources : from' = s /\ custody' \subseteq store[s]
  /\ UNCHANGED <<store, touches, phase>>

Work ==
  /\ phase = "working"
  /\ worked \subseteq worked'
  /\ UNCHANGED <<store, touches, phase, from, custody>>

Commit ==
  /\ phase = "working"
  /\ custody \cap Useful \subseteq worked
  /\ phase' = "committed"
  /\ UNCHANGED <<store, touches, from, custody, worked>>

Discard ==
  /\ phase = "committed"
  /\ \A s \in Sources : store'[s] \subseteq store[s]
  /\ DOMAIN store' = Sources
  /\ UNCHANGED <<touches, phase, from, custody, worked>>

\* A committed run ends when nothing it took is there to be applied again.
Complete ==
  /\ phase = "committed"
  /\ MayKeep \/ custody \cap store[from] = {}
  /\ phase' = "idle"
  /\ custody' = {}
  /\ UNCHANGED <<store, touches>>

GiveUp ==
  /\ phase = "working"
  /\ phase' = "idle"
  /\ custody' = {}
  /\ UNCHANGED <<store, touches>>

Restart ==
  /\ phase' = "fresh"
  /\ custody' = {}
  /\ UNCHANGED <<store, touches>>

PromiseNext ==
  \/ Owner \/ Start \/ TakeCustody \/ Work \/ Commit \/ Discard \/ Complete
  \/ GiveUp \/ Restart

PromiseSpec == PromiseInit /\ [][PromiseNext]_promiseVars
=============================================================================
