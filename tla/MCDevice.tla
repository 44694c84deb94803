-------------------------------- MODULE MCDevice --------------------------------
(* Units of every kind of board and card, each with a user of one of its parts. *)
EXTENDS Device

Part(d, start, size, fs, label, content) ==
  [disk |-> d, start |-> start, size |-> size, fs |-> fs, label |-> label, content |-> content]

MCSize == <<9, 6>>

Shipped == <<Part(1, 0, 1, "fat", "openhd", "user"), Part(1, 1, 3, "ext4", "none", "user"),
             Part(1, 4, 2, "none", "none", "none")>>
Grown == <<Part(1, 0, 1, "fat", "openhd", "user"), Part(1, 1, 3, "ext4", "none", "user"),
           Part(1, 4, 5, "fat", "recordings", "user")>>
Swapped == <<Part(1, 2, 3, "ext4", "none", "user"), Part(1, 0, 2, "fat", "none", "user")>>
Stick == <<Part(2, 0, 2, "fat", "recordings", "user")>>
Full == <<Part(1, 0, 1, "fat", "openhd", "user"), Part(1, 1, 8, "ext4", "none", "user")>>

Layout(p, b) == [parts |-> p, boot |-> b]
Cards == {Layout(Shipped, {1}), Layout(Swapped, {}), Layout(Grown \o Stick, {1})}
FullCard == Layout(Full, {1})
MCLayouts == Cards \cup {FullCard}

MCBoards == {"rpi5", "rpi", "rk3566", "cm5", "rock5", "x20"}
MCUnits ==
  [layout : Cards, board : {"rock5"}, uses : {{"partitions"}}]
    \cup [layout : {FullCard}, board : {"rpi5", "rpi", "rock5"}, uses : {{"camera"}}]
    \cup [layout : {FullCard}, board : MCBoards, uses : {{"video"}}]
    \cup [layout : {FullCard}, board : {"rpi5"}, uses : {{"link"}}]
    \cup [layout : {FullCard}, board : {"rpi5", "rock5"}, uses : {{"serial"}}]
CardUnits == [layout : Cards, board : {"rock5"}, uses : {{"partitions"}}]

MCBootFiles ==
  [b \in MCBoards |->
     CASE b = "rpi5" -> {<<Line("own"), Line("auto1"), Line("gpio-key"), Line("marker"), Line("vc4")>>}
       [] b = "rpi"  -> {<<Line("auto1"), Line("own")>>}
       [] OTHER      -> {<<Line("own"), Line("append")>>}]

MCCamera2 == [b \in MCBoards |->
                IF b = "rpi5" THEN {[id |-> 31, port |-> "cam0", port2 |-> "none"]} ELSE {NoSecond}]

MCIds == [b \in MCBoards |->
            CASE b = "rpi5" -> {20, 33, 85} [] b = "rpi" -> {33, 42} [] b = "rock5" -> {10, 85} [] OTHER -> {}]

MCScanNames == <<"serial0", "serial1", "ttyACM0", "ttyAMA0", "ttyS0", "ttyS2", "ttyS4", "ttyS7", "ttyUSB0", "ttyUSB1">>
MCAliases == [n \in {"serial0", "serial1"} |-> IF n = "serial0" THEN "ttyAMA0" ELSE "ttyS0"]
MCKnownSerials == [b \in MCBoards |->
                     CASE b \in {"rpi5", "rpi"} -> <<"serial0", "serial1">>
                       [] b = "x20" -> <<"ttyS4">>
                       [] OTHER -> <<"ttyS2", "ttyS7">>]
MCBoardPorts == [b \in MCBoards |->
                   CASE b = "rpi5" -> {"ttyAMA0"} [] b = "rock5" -> {"ttyS0", "ttyS7"} [] b = "x20" -> {"ttyS4"}
                     [] OTHER -> {}]
MCAdapters == {"ttyACM0", "ttyUSB0", "ttyUSB1"}

MCLinkRequests ==
  { [interface |-> "wlan0", width |-> "20", level |-> "missing"],
    [interface |-> "missing", width |-> "40", level |-> "high"],
    [interface |-> "empty", width |-> "missing", level |-> "empty"] }

\* The cards have no gaps, as what is proved of VideoIsRecordings supposes.
ASSUME CardsHaveNoGaps == \A l \in MCLayouts : NoGapsIn(l.parts)

=============================================================================
