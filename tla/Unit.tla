---------------------------------- MODULE Unit ----------------------------------
(***************************************************************************)
(* What the parts of a unit's boot have in common: the board, what the     *)
(* config says of it, and the commands that fail.  Modules Partition,      *)
(* Camera, Video, LinkControl and Serial are about one part each; module   *)
(* Device puts them together; its actions say what becomes of board, gate  *)
(* and role, those of the parts only of faults and their own variables.    *)
(***************************************************************************)
EXTENDS Integers

CONSTANTS
  Boards,    \* the kinds of board, of those below
  MaxFaults  \* bound: commands, and file operations of the camera setup, that fail though they could work

ASSUME UnitAssumption ==
  /\ Boards \subseteq {"rpi5", "rpi", "rk3566", "cm5", "rock5", "x20"}
  /\ MaxFaults \in Nat

VARIABLES
  board,  \* what the unit is; "rk3566" is one with Debian Bookworm
  gate,   \* firstboot in the config: absent or true; false; or no config to be had
  role,   \* run_mode in the config
  faults  \* bound: commands that have failed

Gates == {"open", "closed", "unreadable"}
Roles == {"air", "ground", "none"}

is_rpi_platform == board \in {"rpi5", "rpi"}
is_rockchip_platform == board \in {"rk3566", "cm5", "rock5"}

\* A unit is a ground unit unless the config says otherwise; an X20 never is.
is_ground_mode == board # "x20" /\ gate # "unreadable" /\ role # "air"

Fault == faults < MaxFaults /\ faults' = faults + 1
Unfailing == faults' = faults
=============================================================================
