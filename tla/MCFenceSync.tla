---------------------------- MODULE MCFenceSync ----------------------------
(***************************************************************************)
(* A five-node plan for TLC with two device queues and one YieldOp,      *)
(* shaped like a training step whose host-side YieldOp hands a value back: *)
(*                                                                         *)
(*   pos  provider  queue  inputs     implicit  outputs  host-memory input *)
(*    0   gpu       q0     <<a>>      <<>>      <<x>>                      *)
(*    1   gpu       q1     <<a>>      <<>>      <<s>>                      *)
(*    2   gpu       q1     <<x, s>>   <<>>      <<y>>    index 1 (a shape) *)
(*    3   cpu       -      <<y>>      <<>>      <<z>>    YieldOp           *)
(*    4   gpu       q0     <<z>>      <<y>>     <<o>>    (Loop-like node)  *)
(*                                                                         *)
(* The planner fences x (written on q0, read on q1), s (read on the host)  *)
(* and y (written on q1, read on the host and on q0).                      *)
(***************************************************************************)
EXTENDS FenceSync

CONSTANTS a, x, s, y, z, o, q0, q1

\* Builds a function on plan positions 0 .. Len(t) - 1 from a tuple.
OnNodes(t) == [p \in 0 .. (Len(t) - 1) |-> t[p + 1]]

MCN == 5
MCYield == {3}
MCNoYield == {}
MCValues == {a, x, s, y, z, o}
MCFeeds == {a}
MCFenced == {x, s, y}
MCInputs == OnNodes(<< <<a>>, <<a>>, <<x, s>>, <<y>>, <<z>> >>)
MCImplicit == OnNodes(<< << >>, << >>, << >>, << >>, <<y>> >>)
MCOutputs == OnNodes(<< <<x>>, <<s>>, <<y>>, <<z>>, <<o>> >>)
MCProvider == OnNodes(<<"gpu", "gpu", "gpu", "cpu", "gpu">>)
\* The YieldOp placed on the device provider.
MCProviderDeviceYield == OnNodes(<<"gpu", "gpu", "gpu", "gpu", "gpu">>)
MCQueues == {q0, q1}
MCQueue == OnNodes(<<q0, q1, q1, q0, q0>>)
MCCpuInput == OnNodes(<<{}, {}, {1}, {}, {}>>)
\* Node 4 also declares its input 0 (a trip count) in host memory, as a
\* Loop kernel of a device provider does.
MCCpuInputLoop == OnNodes(<<{}, {}, {1}, {}, {0}>>)

=============================================================================
