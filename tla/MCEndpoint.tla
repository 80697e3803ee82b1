------------------------------ MODULE MCEndpoint ------------------------------
(***************************************************************************)
(* Instances of Endpoint for TLC.                                          *)
(***************************************************************************)
EXTENDS EndpointRefinement, TLC

\* Processes, handles, remote initiators and plaintexts are interchangeable.
Symmetric == Permutations(Procs) \cup Permutations(XHandles) \cup Permutations(KHandles)
             \cup Permutations(Initiators) \cup Permutations(Bodies)

PrekeyCalls  == {"admit_prekey", "accept_first_packet", "delete_session"}
OpeningCalls == {"create_first_packet", "verify_session_accept", "send_record",
                 "receive_record", "dispatch_pending", "delete_session"}
RestartCalls == {"create_first_packet", "verify_session_accept"}
RecordCalls  == {"send_record", "receive_record", "dispatch_pending", "delete_session"}
FlowCalls    == {"send_record", "bootstrap_capabilities",
                 "apply_complete_capability_flow", "dispatch_pending", "delete_session"}

NoRecords == {}

\* The peer sends two records of its first epoch and one of its second.
ResponderRecords == {[dh |-> 0, pn |-> 0, n |-> 0], [dh |-> 0, pn |-> 0, n |-> 1],
                     [dh |-> 1, pn |-> 2, n |-> 0]}
InitiatorRecords == {[dh |-> 1, pn |-> 0, n |-> 0], [dh |-> 1, pn |-> 0, n |-> 1],
                     [dh |-> 2, pn |-> 2, n |-> 0]}

=============================================================================
