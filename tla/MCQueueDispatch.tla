--------------------------- MODULE MCQueueDispatch ---------------------------
EXTENDS QueueDispatch, TLC

\* Deliveries are interchangeable when all of them are start events.
WorkerSymmetry == Permutations(Worker)
StartSymmetry == Permutations(Worker) \cup Permutations(Delivery)

\* The route is edited in behaviours in which no message is handed out again.
EditsOrRetries == policy.revision = 1 \/ \A d \in Delivery : attempts[d] <= 1
=============================================================================
