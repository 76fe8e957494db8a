--------------------------------- MODULE MCDB ---------------------------------
(***************************************************************************)
(* sysmodule.DBModule for TLC: the executors, the connections and the rows *)
(* of a statement.  They share no state, so a behaviour takes steps of one *)
(* of them while the others are as they were created: the states add up    *)
(* and do not multiply.                                                    *)
(***************************************************************************)
EXTENDS DBExecute, DBTx, DBRows

moduleVars == <<vars, dbVars, rowsVars>>

ModuleInit == Init /\ DBInit /\ RowsInit

ModuleNext ==
    \/ DBInit /\ RowsInit /\ Next /\ UNCHANGED <<dbVars, rowsVars>>
    \/ Init /\ RowsInit /\ DBNext /\ UNCHANGED <<vars, rowsVars>>
    \/ Init /\ DBInit /\ RowsNext /\ UNCHANGED <<vars, dbVars>>

ModuleSpec == ModuleInit /\ [][ModuleNext]_moduleVars /\ Fairness

-----------------------------------------------------------------------------
\* -1 has a negative remainder.
MCHashes == {-1, 0}

\* Every kind of statement, with the outcomes that differ for it: a query
\* answers in full whatever its error is.
MCRequests ==
    [kind : {"exec", "asyncExec"}, fate : {"ok", "sqlErr"}]
        \cup {[kind |-> "query", fate |-> "sqlErr"], [kind |-> "asyncQuery", fate |-> "ok"]}

-----------------------------------------------------------------------------
(* A number, a word and NULL, in columns of which two differ in case only. *)

MCLower == [id |-> "id", ID |-> "id", n |-> "n"]

RowSet(cols, rows) == [cols |-> cols, rows |-> rows]
Tables(m, k) == UNION {[1..i -> [1..m -> {"7", "w", Null}]] : i \in 0..k}

\* One set of up to two rows, one with a name twice, and two sets.
MCResults ==
    {<<RowSet(<<"id", "n">>, t)>> : t \in Tables(2, 2)}
        \cup {<<RowSet(<<"id", "ID">>, <<<<"7", "w">>, <<"w", "7">>>>)>>}
        \cup {<<RowSet(<<"id">>, q), RowSet(<<"n">>, r)>> : q, r \in Tables(1, 1)}

Arg(k, t) == [kind |-> k, type |-> t]
Both == [id |-> "string", n |-> "int"]
MCArgLists ==
    {<<Arg("struct", Both)>>, <<Arg("slice", Both)>>, <<Arg("other", <<>>)>>,
     <<Arg("struct", Both), Arg("slice", Both)>>, <<Arg("slice", Both), Arg("other", <<>>)>>}

=============================================================================
