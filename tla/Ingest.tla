-------------------------------- MODULE Ingest --------------------------------
(***************************************************************************)
(* The two ways rows are pushed to a node, side by side: requests in front *)
(* of the writer, and the syslog listener.  They meet in the writer's      *)
(* queue alone, and what the listener hands to it may be dropped at any    *)
(* time, so each is looked at with the other at rest.                      *)
(***************************************************************************)
EXTENDS IngestFront, Syslog

(* No listener: the supervisor has not been started.                       *)
NoListener ==
  /\ settings = [k \in {} |-> k] /\ posts = 0 /\ writes = <<>>
  /\ sup = [Resting EXCEPT !.pc = "off"] /\ running = Absent /\ socks = {}
  /\ router = [n \in Chan |-> Absent] /\ faults = 0
  /\ conn = [c \in Sender |-> Unconnected("silent", Silence)]
  /\ datagrams = {} /\ placed = {}

(* No requests, and no writer.                                             *)
NoRequests ==
  /\ FrontAt([senders |-> {}, auth |-> CHOOSE a \in AuthChanges : TRUE, envs |-> {}, edits |-> 0])
  /\ open = FALSE /\ queue = {} /\ shed = {}
  /\ wpc = "exited" /\ drained = FALSE /\ staging = {} /\ due = TRUE /\ batch = {}
  /\ flushing = {} /\ stored = {} /\ failed = {}

IngestInit == (FrontInit /\ NoListener) \/ (NoRequests /\ NetInit)

IngestNext ==
  \/ FrontNext /\ UNCHANGED net
  \/ NetNext /\ UNCHANGED everything

IngestSpec ==
  /\ IngestInit /\ [][IngestNext]_<<everything, net>>
  /\ FrontFairness /\ NetFairness
=============================================================================
