------------------------------ MODULE RedisZSet ------------------------------
(***************************************************************************)
(* The sorted set operations of sysmodule.RedisModule: one command each on *)
(* a connection of its own, and for the ranges makeListJson, which turns   *)
(* the server's flat reply into the JSON that the ...JSON functions decode *)
(* (sysmodule/RedisModule.go).  The set and its order are the server's.    *)
(***************************************************************************)
EXTENDS RedisData

CONSTANTS
    Member,      \* members: numbers, in the order of their bytes
    Elements,    \* how many JSON values, with commas between them, the text of each
                 \* is: 1 for what ZADDInsertJson inserts, 2 for a text such as
                 \* "1,2", 0 for one that is no such list
    MaxScore,    \* bound: scores are 1..MaxScore
    MaxZOps      \* bound: operations in a behaviour

Score == 1..MaxScore

VARIABLES
    zset,     \* the score of each member, Absent when it is not in the set
    zcall,    \* zcall[p]: the call p is in, NoOp when it is in none
    zres,     \* the call that just returned without error, its result, and the
              \* contents that the set had while it ran
    zseen,    \* zseen[p]: contents of the set since the call of p began
    zcount    \* calls made

zsetVars == <<zset, zcall, zres, zseen, zcount>>

\* A call: its operation, the members it names, its range, and for the ranges
\* whether they ascend and come with scores.
ZCall(op, ms, a, b, asc, scores) ==
    [op |-> op, ms |-> ms, a |-> a, b |-> b, asc |-> asc, scores |-> scores]

\* Ranges by rank, from the first to the last or the first alone;
\* ranges by score, in both orders of their ends.
RankArgs == {<<0, -1>>, <<0, 0>>}
ScoreArgs == {<<1, MaxScore>>, <<MaxScore, 1>>}

\* ZADDInsertJson sends what ZADDInsert sends, for a member that is JSON.
ZAddCalls == {ZCall("ZADDInsert", {m}, s, s, TRUE, FALSE) : m \in Member, s \in Score}
ZRangeCalls ==
    {ZCall("ZRangeJSON", {}, r[1], r[2], asc, sc) : r \in RankArgs, asc, sc \in BOOLEAN}
    \cup {ZCall("ZRangeByScoreJSON", {}, r[1], r[2], asc, sc)
             : r \in ScoreArgs, asc, sc \in BOOLEAN}
ZReadCalls ==
    {ZCall("Zcard", {}, 0, 0, TRUE, FALSE)}
    \cup {ZCall("ZScore", {m}, 0, 0, TRUE, FALSE) : m \in Member}
    \cup {ZCall("ZRank", {m}, 0, 0, asc, FALSE) : m \in Member, asc \in BOOLEAN}
ZRemCalls ==
    {ZCall("ZREM", {m, n}, 0, 0, TRUE, FALSE) : m, n \in Member}
    \cup {ZCall("ZREMRANGEBYSCORE", {}, r[1], r[2], TRUE, FALSE) : r \in ScoreArgs}
    \cup {ZCall("Zremrangebyrank", {}, r[1], r[2], TRUE, FALSE) : r \in RankArgs}
ZCalls == ZAddCalls \cup ZRangeCalls \cup ZReadCalls \cup ZRemCalls

ASSUME ZSetAssumption ==
    /\ Member \subseteq Nat /\ IsFiniteSet(Member) /\ Elements \in [Member -> Nat]
    /\ MaxScore \in Nat \ {0} /\ MaxZOps \in Nat /\ NoOp \notin ZCalls

-----------------------------------------------------------------------------
(* The server.                                                             *)

InSet(z) == {m \in Member : z[m] # Absent}

\* The server's order: by score, and by bytes where scores are equal.
Precedes(z, m, n) == z[m] < z[n] \/ (z[m] = z[n] /\ m < n)

Ascends(z, s) == \A j, k \in DOMAIN s : j < k => Precedes(z, s[j], s[k])

Ranking(z, ms) == CHOOSE s \in [1..Cardinality(ms) -> ms] : Ascends(z, s)

Sorted(z) == Ranking(z, InSet(z))

Directed(s, asc) == IF asc THEN s ELSE Reverse(s)

\* The elements of s from rank a to rank b; a negative rank counts from the end.
Ranks(s, a, b) == SubSeq(s, a + 1, IF b < 0 THEN Len(s) + b + 1 ELSE Least(b + 1, Len(s)))

\* The reply to a range: the members, each followed by its score when asked for.
FlatReply(z, s, scores) ==
    IF ~scores THEN s
    ELSE [j \in 1..(2 * Len(s)) |-> IF j % 2 = 1 THEN s[(j + 1) \div 2] ELSE z[s[j \div 2]]]

Without(z, ms) == [m \in Member |-> IF m \in ms THEN Absent ELSE z[m]]

-----------------------------------------------------------------------------
(* The operations.                                                         *)

\* ZRANGE or ZREVRANGE.
ByRank(z, c) == Ranks(Directed(Sorted(z), c.asc), c.a, c.b)

\* ZRANGEBYSCORE, or ZREVRANGEBYSCORE with the ends in the same order, which
\* the server takes as the greatest and the least score.
ByScore(z, c) ==
    LET lo == IF c.asc THEN c.a ELSE c.b
        hi == IF c.asc THEN c.b ELSE c.a
    IN  Directed(Ranking(z, {m \in InSet(z) : lo <= z[m] /\ z[m] <= hi}), c.asc)

\* makeListJson: with scores, the elements of the reply are by turns the data
\* and the score of an object.
MakeListJson(reply, scores) ==
    IF ~scores THEN [j \in DOMAIN reply |-> [data |-> reply[j], score |-> Absent]]
    ELSE [j \in 1..(Len(reply) \div 2) |-> [data |-> reply[2 * j - 1], score |-> reply[2 * j]]]

\* What json.Unmarshal reads in the text: each entry, and how many elements in a
\* row it becomes.
Parsed(b) ==
    [j \in DOMAIN b |->
        [data |-> b[j].data, values |-> Elements[b[j].data], score |-> b[j].score]]

\* ZRangeJSON and ZRangeByScoreJSON.  The members are put into the text as they
\* are: one that is two values becomes two elements, or breaks the object it
\* shares with its score; one that is none makes json.Unmarshal refuse the text,
\* unless the texts around it happen to complete it to something else, for which
\* the empty result stands.
RangeJSON(z, s, scores) ==
    LET b == Parsed(MakeListJson(FlatReply(z, s, scores), scores))
    IN  IF \E j \in DOMAIN b : b[j].values = 0 THEN {Failed, Nil(<<>>)}
        ELSE IF scores /\ \E j \in DOMAIN b : b[j].values # 1 THEN {Failed}
        ELSE {Nil(b)}

\* redis.Float64 and redis.Int make an error of the nil reply for a missing member.
ZScore(z, c) == LET m == CHOOSE n \in c.ms : TRUE IN IF z[m] = Absent THEN Failed ELSE Nil(<<z[m]>>)

ZRank(z, c) ==
    LET m == CHOOSE n \in c.ms : TRUE
        s == Directed(Sorted(z), c.asc)
    IN  IF z[m] = Absent THEN Failed ELSE Nil(<<(CHOOSE j \in DOMAIN s : s[j] = m) - 1>>)

\* ZADDInsert, and ZADDInsertJson, replace the score of a member that is there.
ZADDInsert(z, c) == [m \in Member |-> IF m \in c.ms THEN c.a ELSE z[m]]

\* What the members taken away by ZREM, ZREMMulti, ZREMRANGEBYSCORE and
\* Zremrangebyrank are.
Removed(z, c) ==
    CASE c.op = "ZREM" -> c.ms \cap InSet(z)
      [] c.op = "ZREMRANGEBYSCORE" -> Range(ByScore(z, c))
      [] c.op = "Zremrangebyrank" -> Range(ByRank(z, c))

\* The content after a call, and what the call may return.
ZAfter(z, c) ==
    CASE c.op = "ZADDInsert" -> ZADDInsert(z, c)
      [] c.op \in {"ZREM", "ZREMRANGEBYSCORE", "Zremrangebyrank"} -> Without(z, Removed(z, c))
      [] OTHER -> z

ZResult(z, c) ==
    CASE c.op = "ZRangeJSON" -> RangeJSON(z, ByRank(z, c), c.scores)
      [] c.op = "ZRangeByScoreJSON" -> RangeJSON(z, ByScore(z, c), c.scores)
      [] c.op = "Zcard" -> {Nil(<<Cardinality(InSet(z))>>)}
      [] c.op = "ZScore" -> {ZScore(z, c)}
      [] c.op = "ZRank" -> {ZRank(z, c)}
      [] c.op \in {"ZREM", "Zremrangebyrank"} -> {Nil(<<Cardinality(Removed(z, c))>>)}
      [] OTHER -> {Nil(<<>>)}

-----------------------------------------------------------------------------
NoResult == [call |-> NoOp, res |-> Pending, seen |-> {}]

ZSetInit ==
    /\ zset = [m \in Member |-> Absent] /\ zcount = 0
    /\ zcall = [p \in Session |-> NoOp] /\ zseen = [p \in Session |-> {}]
    /\ zres = NoResult

ZBegin(p, c) ==
    /\ zcall[p] = NoOp /\ zcount < MaxZOps
    /\ zcall' = [zcall EXCEPT ![p] = c] /\ zseen' = [zseen EXCEPT ![p] = {zset}]
    /\ zcount' = zcount + 1 /\ zres' = NoResult /\ UNCHANGED zset

ZReturn(p, r, seen) ==
    /\ zres' = IF r.err = "nil" THEN [call |-> zcall[p], res |-> r, seen |-> seen] ELSE NoResult
    /\ zcall' = [zcall EXCEPT ![p] = NoOp]

\* Do: the command takes effect, and its reply arrives or is lost.
ZDo(p) ==
    /\ zcall[p] # NoOp
    /\ zset' = ZAfter(zset, zcall[p])
    /\ zseen' = [q \in Session |-> IF q # p /\ zcall[q] # NoOp THEN zseen[q] \cup {zset'} ELSE {}]
    /\ \/ \E r \in ZResult(zset, zcall[p]) : ZReturn(p, r, zseen[p])
       \/ Faults /\ ZReturn(p, Failed, zseen[p])
    /\ UNCHANGED zcount

\* No connection, a value that json.Marshal refuses, scores asked for with
\* another type to decode into, or a connection that breaks before the command
\* arrives.
ZFail(p) ==
    /\ zcall[p] # NoOp
    /\ ZReturn(p, Failed, zseen[p]) /\ zseen' = [zseen EXCEPT ![p] = {}]
    /\ UNCHANGED <<zset, zcount>>

ZSetNext == \E p \in Session : (\E c \in ZCalls : ZBegin(p, c)) \/ ZDo(p) \/ ZFail(p)

ZSetSpec == ZSetInit /\ [][ZSetNext]_zsetVars

-----------------------------------------------------------------------------
(* Properties.                                                             *)

ZSetTypeOK ==
    /\ zset \in [Member -> Score \cup {Absent}] /\ zcount \in 0..MaxZOps
    /\ \A p \in Session : zcall[p] \in ZCalls \cup {NoOp} /\ (zcall[p] = NoOp <=> zseen[p] = {})

\* Whether v lists the members of ms in the order of their scores in z, ascending
\* or descending, and with the scores each as one element with its own.
ListsInOrder(v, ms, z, c) ==
    /\ Len(v) = Cardinality(ms)
    /\ {v[j].data : j \in DOMAIN v} = ms
    /\ \A j, k \in DOMAIN v : j < k =>
         IF c.asc THEN z[v[j].data] <= z[v[k].data] ELSE z[v[j].data] >= z[v[k].data]
    /\ c.scores => \A j \in DOMAIN v : v[j].values = 1 /\ v[j].score = z[v[j].data]

\* How many members stand before m.
Before(z, m, asc) ==
    Cardinality({n \in InSet(z) :
        LET less == z[n] < z[m] \/ (z[n] = z[m] /\ n < m)
        IN  n # m /\ (less <=> asc)})

\* The members that a range is about: from rank to rank, or between two scores.
InRange(z, c) ==
    IF c.op = "ZRangeJSON"
    THEN {m \in InSet(z) : Before(z, m, c.asc) >= c.a /\ (c.b < 0 \/ Before(z, m, c.asc) <= c.b)}
    ELSE {m \in InSet(z) : IF c.asc THEN c.a <= z[m] /\ z[m] <= c.b
                                    ELSE c.b <= z[m] /\ z[m] <= c.a}

\* A call that reports no error describes the set as it was at one moment
\* between its start and its return: a range is about exactly its members, in the
\* order asked for, also across the encoding as JSON and back, unless one of them
\* is neither JSON nor a list of it; with scores each is one element and has its
\* own score, while without scores a member is as many elements as its text is
\* JSON values; a rank is the number of members before; a removal counts what was
\* there.
ZSetReads ==
    LET c == zres.call
        v == zres.res.val
    IN  zres.res.err = "nil" => \E z \in zres.seen :
            CASE c.op \in {"ZRangeJSON", "ZRangeByScoreJSON"} ->
                    (\A m \in InRange(z, c) : Elements[m] # 0) =>
                        ListsInOrder(v, InRange(z, c), z, c)
              [] c.op = "ZRank" -> \A m \in c.ms : z[m] # Absent /\ v = <<Before(z, m, c.asc)>>
              [] c.op = "ZREM" -> v = <<Cardinality({m \in c.ms : z[m] # Absent})>>
              [] OTHER -> TRUE

ZSetInv == ZSetTypeOK /\ ZSetReads

\* What the operations report of strings, hash, list and sorted set agrees with
\* what the server held, on connections that interleave and break.
RepliesInv == DataInv /\ ZSetInv

=============================================================================
