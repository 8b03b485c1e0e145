---------------------------- MODULE MCSimBringUp ----------------------------
(***************************************************************************)
(* Instances of SimBringUp: short sequences in place of the long ones, and *)
(* small counters.                                                         *)
(***************************************************************************)
EXTENDS SimBringUp

Echo == Cmd("ATE0")
Pin == Cmd("AT_CPIN")
Profile == Cmd("AT_CGDCONT")
Correct == CmdText("AT_CGDCONT_1", "apn")
Number == Cmd("AT_CNUM")
Service == Cmd("AT_QCDS")
Clock == Cmd("AT_CCLK")
Reboot == Cmd("AT_CFUN_1_1")
PowerDown == Cmd("AT_SHDN")

NoRuns == {<<>>}
Echoed == {Echo, Service}
NumberAndPin == {"AT_CPIN", "AT_CNUM"}
InitSequence == <<Echo, Pin>>

\* Service: the sequences and the status poll, with no request of a client
\* and no question for the time.
ServiceCommands == {Echo, Pin, Profile, Correct, Number, Service}
ServiceReady == <<Profile, Number>>
ServiceTime == <<>>
ServiceFollowUps == {<<"AT_CGDCONT", <<Correct>>>>}
ServiceLines == {ServiceReady, <<Correct>>}
ServicePolls == {<<>>, <<Service>>}

\* Reboot: a client restarts the modem, or switches it off, in the middle of the bring-up.
RebootCommands == {Echo, Pin, Number, Service, Clock, Reboot, PowerDown}
RebootRuns == {<<Reboot>>, <<PowerDown>>}
RebootReady == <<Number>>
RebootTime == <<Clock>>
RebootLines == {<<Number>>}
RebootPolls == {<<>>, <<Service>>, <<Clock>>, <<Service, Clock>>}
=============================================================================
