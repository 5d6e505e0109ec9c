------------------------------ MODULE MCWSClient ------------------------------
(* Instances of WSClient for TLC.  Channels and tickers are model values; the  *)
(* sets of method calls below are what the callers of a run may do.            *)
EXTENDS WSSubscriptions, TLC

CONSTANTS a, b, t, u, c1, c2 \* two channels and two tickers

Call(op, chs, tickers, global) ==
    [op |-> op, chs |-> chs, tickers |-> tickers, global |-> global]

SubscribeT == Call("subscribe", <<a>>, {t}, FALSE)
SubscribeU == Call("subscribe", <<a>>, {u}, FALSE)
SubscribeTU == Call("subscribe", <<a>>, {t, u}, FALSE)
SubscribeB == Call("subscribe", <<b>>, {t}, FALSE)
SubscribeAll == Call("subscribe", <<a>>, {}, TRUE)
SubscribeAB == Call("subscribe", <<a, b>>, {t}, FALSE)
UnsubscribeA == Call("unsubscribe", <<a>>, {}, FALSE)
AddT == Call("add", <<a>>, {t}, FALSE)
AddU == Call("add", <<a>>, {u}, FALSE)
AddTU == Call("add", <<a>>, {t, u}, FALSE)
RemoveT == Call("remove", <<a>>, {t}, FALSE)
SnapshotT == Call("snapshot", <<a>>, {t}, FALSE)
ConnectCall == Call("connect", <<>>, {}, FALSE)
CloseCall == Call("close", <<>>, {}, FALSE)

EdgeCalls == {ConnectCall, SubscribeAB, AddU, RemoveT, SnapshotT, UnsubscribeA}
CommandCalls == {SubscribeAB, AddT, AddU, UnsubscribeA, RemoveT, SnapshotT}
SettledCalls == {SubscribeTU, AddTU, RemoveT, SnapshotT, UnsubscribeA}
StreamCalls == {SubscribeT, AddU, UnsubscribeA, SnapshotT}
RecoverCalls == {SubscribeB, SubscribeAll, RemoveT, UnsubscribeA}
EndCalls == {SubscribeT, AddU, CloseCall}
QueueCalls == {SubscribeT, AddT, AddU, UnsubscribeA}
StaleCalls == {SubscribeAB, AddU}
CloseCalls == {SubscribeT, CloseCall}
AskedCalls == {SubscribeAB, SubscribeAll, AddU, AddTU, UnsubscribeA, SnapshotT}
LateCalls == {SubscribeU, AddT, RemoveT}
EndedCalls == {SubscribeT, UnsubscribeA}
SilentCalls == {SubscribeAB, UnsubscribeA}
DoubleCalls == {AddT, AddU}
ForgottenCalls == {SubscribeT, AddU}

CallerSymmetry == Permutations(Callers)
=============================================================================
