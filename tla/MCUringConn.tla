---------------------------- MODULE MCUringConn -----------------------------
(* Instance of UringConn for TLC.  A template with bytes on both sides of  *)
(* the slot, which takes the longest transaction exactly and whose content *)
(* length gets a second digit; one whose slot is as long as its sentinel   *)
(* and too small for the longest transaction; one whose token holds a      *)
(* second sentinel; one with too small a slot.                             *)
EXTENDS UringConn

MCBodySentinel == <<20, 21, 20, 22>>
MCClSentinel   == <<23, 24>>

Around(s) == <<BodyByte>> \o s \o <<BodyByte>>

MCSpecs ==
    { BuildSpec(<<HeadByte>>, <<>>, <<HeadByte>>, Around(MCBodySentinel), 12),
      BuildSpec(<<>>, <<HeadByte>>, <<>>, MCBodySentinel, 4),
      BuildSpec(<<>>, MCBodySentinel, <<>>, MCBodySentinel, 12),
      BuildSpec(<<>>, <<>>, <<>>, MCBodySentinel, 3) }

ByteStrings == Seq(Nat)

AllConfigs == [mode : {"BatchSyscall", "SqeStream"}, sqpoll : BOOLEAN]

=============================================================================
