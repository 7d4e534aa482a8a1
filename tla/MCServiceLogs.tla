---------------------------- MODULE MCServiceLogs ----------------------------
(* Instances of ServiceLogs for TLC.                                       *)
EXTENDS ServiceLogs, TLC

RpcAll     == [kind |-> "rpc", follow |-> FALSE, all |-> TRUE]
RpcLast    == [kind |-> "rpc", follow |-> FALSE, all |-> FALSE]
RpcFollow  == [kind |-> "rpc", follow |-> TRUE, all |-> FALSE]
RestFollow == [kind |-> "rest", follow |-> TRUE, all |-> TRUE]

SomeRequests == {RpcAll, RpcLast, RpcFollow, RestFollow}
=============================================================================
