------------------------------ MODULE MCNvNet ------------------------------
(* A finite instance of NvNet *)
EXTENDS NvNet, TLC

Plan(rings, frames, queued, extras) ==
  [rx |-> rings[1] - 1, tx |-> rings[2] - 1, frames |-> frames, queued |-> queued, extras |-> extras]

(* More frames than buffers with a transmission between, more descriptors     *)
(* queued than the ring has, and a longer receive ring                        *)
MCPlans == {Plan(<<2, 1>>, 4, 1, 1), Plan(<<1, 2>>, 2, 4, 1), Plan(<<3, 1>>, 5, 0, 0)}
=============================================================================
