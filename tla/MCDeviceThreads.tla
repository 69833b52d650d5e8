--------------------------- MODULE MCDeviceThreads ---------------------------
(* DeviceThreads for TLC: threads, devices and buffers are interchangeable. *)
EXTENDS DeviceThreads, TLC

CONSTANTS t1, t2, d1, d2, b1, b2

\* An asynchronous engine with either way to get a buffer, and the synchronous one.
TwoKinds == {[engine |-> "async", cached |-> TRUE], [engine |-> "sync", cached |-> FALSE]}

Alike == Permutations({t1, t2}) \cup Permutations({d1, d2}) \cup Permutations({b1, b2})
=============================================================================
