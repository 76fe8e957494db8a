----------------------------- MODULE MCRpcRemote ------------------------------
(* The mixes of remote calls of the runs.                                  *)
EXTENDS RpcRemote

\* A call with the given fate that sends the field and has it assigned.
Full(k, f, m) == <<k, f, m, TRUE, TRUE>>

\* Every entry point with and without mutiCoroutine, every failure for at least
\* one entry point that meets it, and calls that leave the field unsent or
\* unassigned.
MCMix ==
    {Full(k, "ok", m) : k \in Kinds, m \in BOOLEAN}
        \cup {Full("async", f, FALSE) : f \in Fates}
        \cup {Full("call", "badArg", FALSE), Full("call", "badReply", FALSE),
              Full("go", "badParam", FALSE)}
        \cup ({"async"} \X {"ok"} \X BOOLEAN \X BOOLEAN \X BOOLEAN)
        \cup {<<"go", "badParam", FALSE, FALSE, TRUE>>}

\* One synchronous call of a method that succeeds.
MCOneCall == {Full("call", "ok", FALSE)}

=============================================================================
