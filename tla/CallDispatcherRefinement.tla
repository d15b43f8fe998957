---------------------- MODULE CallDispatcherRefinement ----------------------
(***************************************************************************)
(* The dispatcher implements SignalStream: the line of a stream is the job *)
(* in flight followed by the jobs waiting.                                 *)
(***************************************************************************)
EXTENDS CallDispatcher

InFlightOn(k) == {j \in InFlight : KeyOf[j] = k}

\* If two goroutines ever drained one stream, no line could have two jobs in
\* flight and the mapping would put neither first.
LineOf(k) ==
    IF \E j \in Job : InFlightOn(k) = {j}
    THEN <<CHOOSE j \in Job : InFlightOn(k) = {j}>> \o jobs[k]
    ELSE jobs[k]

Promise == INSTANCE SignalStream WITH
    line <- [k \in Key |-> LineOf(k)],
    serving <- {k \in Key : \E g \in Owners(k) : run[g] = "delivering"}

\* Within a stream signals are delivered in the order they were accepted, one
\* at a time, and every signal gets exactly one verdict: the reordering of
\* call_accept and call_offer described in dispatcher.go cannot happen.
PromiseSpec == Promise!Spec
=============================================================================
