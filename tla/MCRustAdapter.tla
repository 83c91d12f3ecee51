---------------------------- MODULE MCRustAdapter ----------------------------
(* Instances of RustAdapter for TLC.                                        *)
EXTENDS RustAdapter

\* Interrupt requests on two endpoints: parking, answering, cancelling,
\* reconnecting; control requests that open and close the first under them; bulk
\* transfers that poll while they wait.
InterruptRequests ==
  {[ep |-> e, dir |-> "in", cap |-> 1] : e \in Eps \ {0}} \cup
  {[ep |-> 0, dir |-> "out", cap |-> 0]}
InterruptStalls == {<<3, "in">>}

\* Bulk endpoint: multi-packet transfers in both directions, a request beyond
\* the staging buffer, one of no length.  Control transfers with one packet, with
\* and without data stage.
TransferRequests ==
  {[ep |-> 3, dir |-> "in", cap |-> c] : c \in {0, 3, 5}} \cup
  {[ep |-> 3, dir |-> "out", cap |-> c] : c \in {3, 5}} \cup
  {[ep |-> 0, dir |-> d, cap |-> 2] : d \in Dirs} \cup
  {[ep |-> 0, dir |-> "out", cap |-> 0]}
TransferStalls == {<<3, "in">>, <<3, "out">>}
==============================================================================
