----------------------------- MODULE MCServiceRpc -----------------------------
(* The call graphs of the runs.                                            *)
EXTENDS ServiceRpc

\* A calls B, and B calls C and itself, synchronously; A also calls B with Go
\* and asynchronously, and C calls itself asynchronously.
MCGraph == {<<"A", "B", "call">>, <<"A", "B", "go">>, <<"A", "B", "async">>,
            <<"B", "C", "call">>, <<"B", "B", "call">>, <<"C", "C", "async">>}

\* Calls that succeed, and the failures for the entry points they matter to.
MCMix ==
    (Kinds \X {"ok"} \X {FALSE})
        \cup ({"call"} \X Fates \X {FALSE})
        \cup {<<"call", "ok", TRUE>>, <<"async", "nilArg", FALSE>>}

MCGoRouterNum == [A |-> 1, B |-> 1, C |-> 2]

\* One service that calls itself asynchronously.
MCSelfAsync == {<<"A", "A", "async">>}
MCAsync == {<<"async", "ok", FALSE>>}
MCOne == [A |-> 1]

=============================================================================
