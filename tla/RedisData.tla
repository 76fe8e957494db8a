------------------------------ MODULE RedisData ------------------------------
(***************************************************************************)
(* The commands that the operations of sysmodule.RedisModule send and what *)
(* they make of the replies (sysmodule/RedisModule.go): strings, one hash  *)
(* and one list.  Every operation has a connection of its own; the         *)
(* commands of several connections reach the server in any interleaving, a *)
(* connection may break between any two of them, a reply may be lost after *)
(* its command took effect, and the server may refuse a command.  The      *)
(* server, its transactions and its replies are external: they are         *)
(* modelled from what the code sends and expects.                          *)
(***************************************************************************)
EXTENDS Integers, Sequences, FiniteSets, SequencesExt

CONSTANTS
    Session,    \* goroutines that run an operation
    Key,        \* string keys, fields of the hash, values pushed to the list
    MaxOps,     \* bound: operations in a behaviour
    MaxKeys,    \* bound: keys, fields or values given to an operation
    OtherKeys,  \* bound: string keys that may hold a value of another type at first
    Groups,     \* bound: which operations appear together, and how many of them
    MaxTimeout, \* bound: the timeout given to ListPop
    Faults,     \* whether connections break, replies get lost and the only command
                \* of an operation is refused
    NoOp        \* no operation

StringOps == {"setString", "setStringJSON", "delString", "setMuch", "getMuch", "delMuch",
              "getString", "getStringJSON", "getMuchJSON", "exists", "expire", "keys"}
HashOps == {"setHash", "setMuchHash", "delMuchHash", "hincrby", "getHash", "getAllHash"}
ListOps == {"setList", "setListJSON", "lrange", "llen", "ltrim", "listPop", "listPopBlock", "rpop"}
AllDataOps == StringOps \cup HashOps \cup ListOps

ASSUME DataAssumption ==
    /\ {MaxOps, MaxKeys, MaxTimeout} \subseteq Nat /\ Faults \in BOOLEAN
    /\ Groups \subseteq [ops : SUBSET AllDataOps, max : 0..MaxOps]
    /\ IsFiniteSet(Key) /\ Key # {} /\ OtherKeys \subseteq Key
    /\ NoOp \notin 1..MaxOps /\ NoOp \notin AllDataOps

OpId == 1..MaxOps
Absent == 0
Other == -1   \* a value of another type

VARIABLES
    kind,     \* kind[i]: the operation i was, NoOp before it begins
    keys,     \* keys[i]: the keys, fields or values it was given
    curOp,    \* curOp[p]: the operation p runs, or NoOp
    wire,     \* wire[p]: commands p has still to get to the server
    multi,    \* multi[p]: the server queues the commands of p
    queue,    \* queue[p]: the commands queued since MULTI
    db,       \* db[t]: the operation that wrote each key of the strings, or field
              \* of the hash, or Absent; a string key may hold Other
    ttl,      \* string keys with a time to live
    list,     \* the list: pairs of an operation and the value it pushed
    res,      \* res[i]: what operation i returned: [err, val]
    past,     \* every content db and list have had
    applied,  \* operations whose effect the server has made
    refused   \* operations whose transaction the server ran and refused every
              \* command of

dataVars ==
    <<kind, keys, curOp, wire, multi, queue, db, ttl, list, res, past, applied, refused>>
serverVars == <<multi, queue, db, ttl, list, past>>

Pending == [err |-> "pending", val |-> <<>>]
Failed == [err |-> "err", val |-> <<>>]
\* A result without error; a single value is a sequence of one.
Nil(v) == [err |-> "nil", val |-> v]

Table(op) == IF op \in HashOps THEN "hash" ELSE "string"

-----------------------------------------------------------------------------
(* What each operation sends.                                              *)

Cmd(name, ks) == [name |-> name, keys |-> ks]

\* Mutant of Transaction: the commands are sent without MULTI and EXEC.
WithoutMulti(name, ks) == [j \in 1..Len(ks) |-> Cmd(name, <<ks[j]>>)]

\* MULTI, one command for each key, EXEC: the commands are buffered, or in
\* SetMuchHashJSON acknowledged one by one, and Do waits for the reply of the last.
Transaction(name, ks) ==
    <<Cmd("MULTI", <<>>)>> \o [j \in 1..Len(ks) |-> Cmd(name, <<ks[j]>>)] \o <<Cmd("EXEC", <<>>)>>

\* The command of an operation that sends one.  Reads are told apart by the
\* operation; DelMuchHash deletes its fields, and setList pushes its values, with
\* one command.
Single ==
    [setString |-> "SET", setStringJSON |-> "SET", delString |-> "DEL", expire |-> "EXPIRE",
     setHash |-> "HSET", delMuchHash |-> "HDEL", hincrby |-> "HINCRBY",
     setList |-> "PUSH", setListJSON |-> "PUSH", ltrim |-> "LTRIM",
     listPop |-> "POP", listPopBlock |-> "BPOP", rpop |-> "RPOP"]

Commands(op, ks) ==
    CASE op = "setMuch" -> Transaction("SET", ks)
      [] op \in {"getMuch", "getMuchJSON"} -> Transaction("GET", ks)
      [] op = "delMuch" -> Transaction("DEL", ks)
      [] op = "setMuchHash" -> Transaction("HSET", ks)
      [] op \in DOMAIN Single -> <<Cmd(Single[op], ks)>>
      [] OTHER -> <<Cmd("READ", ks)>>

-----------------------------------------------------------------------------
DataInit ==
    /\ kind = [i \in OpId |-> NoOp] /\ keys = [i \in OpId |-> <<>>]
    /\ curOp = [p \in Session |-> NoOp] /\ wire = [p \in Session |-> <<>>]
    /\ multi = [p \in Session |-> FALSE] /\ queue = [p \in Session |-> <<>>]
    /\ \E x \in SUBSET OtherKeys :
            db = [t \in {"string", "hash"} |->
                    [k \in Key |-> IF t = "string" /\ k \in x THEN Other ELSE Absent]]
    /\ ttl = {} /\ list = <<>> /\ past = {<<db, list>>}
    /\ res = [i \in OpId |-> Pending] /\ applied = {} /\ refused = {}

\* The keys of a slice, and those of a map in the order that range gives them.
KeyLists == SeqOf(Key, MaxKeys)
Maps == {ks \in KeyLists : \A j, k \in DOMAIN ks : ks[j] = ks[k] => j = k}

\* The keys an operation may be given: one, a slice or map of any length, or
\* none.  Of the values of SetMuchHashJSON and of SetMuchListJSONRpush, the ones
\* that json.Marshal refuses are left out before anything is sent.
KeysOf(op) ==
    CASE op \in {"setString", "setStringJSON", "setHash", "hincrby", "getHash"} ->
              {ks \in KeyLists : Len(ks) <= 1}
      [] op \in {"delString", "getString", "getStringJSON", "exists", "expire"} ->
              {ks \in KeyLists : Len(ks) = 1}
      [] op \in {"setMuch", "getMuchJSON", "setMuchHash"} -> Maps
      [] op \in {"getMuch", "delMuch", "delMuchHash", "setList", "setListJSON"} -> KeyLists
      [] OTHER -> {<<>>}

\* A missing key, no connection or a failed Do: the error is returned, except by
\* SetStringJSONExpire, whose inner err shadows the one it returns.
OnError(op) == IF op = "setStringJSON" THEN Nil(<<>>) ELSE Failed

\* Whether the operation may return before it asks for a connection.  An empty
\* setMuchHash was given no field, or only values that cannot be encoded; a
\* value that cannot be encoded ends SetMuchListJSONLpush.
EarlyReturn(op, ks) ==
    CASE op = "setMuchHash" /\ ks = <<>> -> BOOLEAN
      [] op = "setListJSON" -> BOOLEAN
      [] op \in (StringOps \ {"keys"}) \cup (HashOps \ {"getAllHash"}) -> {ks = <<>>}
      [] OTHER -> {FALSE}

\* Session p is free and i is the next operation; the operations that a group
\* has together with the earlier ones.
IsNext(p, i) == curOp[p] = NoOp /\ kind[i] = NoOp /\ \A j \in 1..(i - 1) : kind[j] # NoOp
Together(i) ==
    UNION {g.ops : g \in {h \in Groups : i <= h.max /\ \A j \in 1..(i - 1) : kind[j] \in h.ops}}

\* An operation starts: it returns at once, or it takes a connection and sends
\* its commands.
Begin(p, i, op, ks) ==
    \E early \in EarlyReturn(op, ks) :
        /\ kind' = [kind EXCEPT ![i] = op] /\ keys' = [keys EXCEPT ![i] = ks]
        /\ IF early
           THEN res' = [res EXCEPT ![i] = OnError(op)] /\ UNCHANGED <<curOp, wire>>
           ELSE /\ curOp' = [curOp EXCEPT ![p] = i] /\ wire' = [wire EXCEPT ![p] = Commands(op, ks)]
                /\ UNCHANGED res
        /\ UNCHANGED <<applied, refused>> /\ UNCHANGED serverVars

-----------------------------------------------------------------------------
(* The server.                                                             *)

\* Whether one of the commands cs has one of the names and key k.
Names(cs, names, k) == \E c \in Range(cs) : c.name \in names /\ k \in Range(c.keys)

\* The content of a table after operation i's commands cs.
Touched(d, cs, i) ==
    [k \in Key |->
        IF Names(cs, {"SET", "HSET", "HINCRBY"}, k) THEN i
        ELSE IF Names(cs, {"DEL", "HDEL"}, k) THEN Absent ELSE d[k]]

\* The reply to a command of a transaction on the content d; the GET of a key of
\* another type is refused, and Other stands for the error.
ReplyTo(d, c) ==
    CASE c.name \in {"SET", "HSET"} -> 1
      [] c.name = "GET" -> d[c.keys[1]]
      [] c.name = "DEL" -> IF d[c.keys[1]] = Absent THEN 0 ELSE 1

\* The replies to operation i's commands cs, each on what those before it left.
Replies(d, cs, i) == [j \in DOMAIN cs |-> ReplyTo(Touched(d, SubSeq(cs, 1, j - 1), i), cs[j])]

\* MULTI, and a command that is queued behind it.
Queued(p) ==
    LET c == Head(wire[p]) IN
    /\ curOp[p] # NoOp
    /\ \/ c.name = "MULTI" /\ multi' = [multi EXCEPT ![p] = TRUE] /\ UNCHANGED queue
       \/ /\ c.name # "EXEC" /\ multi[p]
          /\ queue' = [queue EXCEPT ![p] = Append(@, c)] /\ UNCHANGED multi
    /\ wire' = [wire EXCEPT ![p] = Tail(@)]
    /\ UNCHANGED <<kind, keys, curOp, db, ttl, list, res, past, applied, refused>>

\* A key whose time to live has passed is gone.
Expired(k) ==
    /\ k \in ttl /\ ttl' = ttl \ {k}
    /\ db' = [db EXCEPT !["string"][k] = Absent] /\ past' = past \cup {<<db', list>>}
    /\ UNCHANGED <<kind, keys, curOp, wire, multi, queue, list, res, applied, refused>>

\* n elements leave the list at one end.
Shortened(n, left) ==
    IF left THEN SubSeq(list, n + 1, Len(list)) ELSE SubSeq(list, 1, Len(list) - n)

Least(a, b) == IF a < b THEN a ELSE b

\* The elements from index a to index b; a negative index counts from the end.
Part(a, b) ==
    LET Pos(x) == IF x < 0 THEN Len(list) + x + 1 ELSE x + 1
    IN  SubSeq(list, IF Pos(a) < 1 THEN 1 ELSE Pos(a), Least(Pos(b), Len(list)))

Index == -1..1

-----------------------------------------------------------------------------
(* What the operations make of the reply.                                  *)

\* The last position of key k: what the loop over the replies leaves in a map.
LastOf(ks, k) == CHOOSE j \in DOMAIN ks : ks[j] = k /\ \A l \in DOMAIN ks : ks[l] = k => l <= j

\* A reply as GetMuchString takes it: an empty string, for which Absent stands,
\* where it is no string, be it missing or an error.
TextOf(r) == IF r \in OpId THEN r ELSE Absent

\* Mutant of RetMap: the replies are read from the end.
RetMapReversed(ks, reply) ==
    [k \in Range(ks) |-> TextOf(reply[Len(ks) + 1 - LastOf(ks, k)])]

\* retMap of GetMuchString: reply j belongs to key j.
RetMap(ks, reply) == [k \in Range(ks) |-> TextOf(reply[LastOf(ks, k)])]

\* retMap of DelMuchString: whether each key was deleted, by its last reply.
DelMap(ks, reply) == [k \in Range(ks) |-> reply[LastOf(ks, k)] # 0]

\* A plain string stands for one that json.Unmarshal refuses.
Encoded(v) == v \in OpId /\ kind[v] = "setStringJSON"

\* GetMuchStringJSON decodes the replies in order into the values it was given,
\* leaves out what is no string, and stops with an error at one it cannot decode.
Decode(ks, reply) ==
    LET bad == {j \in DOMAIN reply : reply[j] \in OpId /\ ~Encoded(reply[j])}
        good == {j \in DOMAIN reply : Encoded(reply[j]) /\ \A b \in bad : j < b}
    IN  [err |-> IF bad = {} THEN "nil" ELSE "err",
         val |-> [k \in {ks[j] : j \in good} |-> reply[CHOOSE j \in good : ks[j] = k]]]

GetString(k) == IF db["string"][k] \in OpId THEN Nil(<<db["string"][k]>>) ELSE Failed

GetStringJSON(k) == IF Encoded(db["string"][k]) THEN Nil(<<db["string"][k]>>) ELSE Failed

ExistsKey(k) == Nil(<<db["string"][k] # Absent>>)

Keys == Nil(<<{k \in Key : db["string"][k] # Absent}>>)

GetHashValueByKey(f) == IF db["hash"][f] = Absent THEN Failed ELSE Nil(<<db["hash"][f]>>)

GetAllHashJSON == Nil([f \in {g \in Key : db["hash"][g] # Absent} |-> db["hash"][f]])

GetListLen == Nil(<<Len(list)>>)

\* Lrange, and LRange below LRangeJSON.
Lrange(a, b) == Nil(Part(a, b))

\* What a reading operation may return for what the server holds now.
Reading(op, ks) ==
    CASE op = "getString" -> {GetString(ks[1])}
      [] op = "getStringJSON" -> {GetStringJSON(ks[1])}
      [] op = "exists" -> {ExistsKey(ks[1])}
      [] op = "keys" -> {Keys}
      [] op = "getHash" -> {GetHashValueByKey(ks[1])}
      [] op = "getAllHash" -> {GetAllHashJSON}
      [] op = "llen" -> {GetListLen}
      [] op = "lrange" -> {Lrange(a, b) : a, b \in Index}

\* The operation of p returns r and gives its connection back.
Finish(p, r) ==
    /\ res' = [res EXCEPT ![curOp[p]] = r]
    /\ curOp' = [curOp EXCEPT ![p] = NoOp] /\ wire' = [wire EXCEPT ![p] = <<>>]
    /\ multi' = [multi EXCEPT ![p] = FALSE] /\ queue' = [queue EXCEPT ![p] = <<>>]
    /\ UNCHANGED <<kind, keys>>

\* Do came back with r; or its reply was lost with the connection.
Done(p, r) == Finish(p, r) \/ (Faults /\ Finish(p, OnError(kind[curOp[p]])))

\* The commands of p take effect; a SET gives its key a time to live or none.
Change(p, cs) ==
    LET t == Table(kind[curOp[p]])
        set == {k \in Key : Names(cs, {"SET"}, k)}
    IN  /\ db' = [db EXCEPT ![t] = Touched(@, cs, curOp[p])]
        /\ ttl' \in {{k \in x : db'["string"][k] # Absent} : x \in {ttl \ set, ttl \cup set}}
        /\ past' = past \cup {<<db', list>>}
        /\ applied' = applied \cup {curOp[p]} /\ UNCHANGED <<list, refused>>

At(p, name) == curOp[p] # NoOp /\ Head(wire[p]).name = name /\ ~multi[p]

\* A command outside a transaction takes effect; the last one answers Do with r.
Immediate(p, r) ==
    /\ Change(p, <<Head(wire[p])>>)
    /\ IF Len(wire[p]) = 1 THEN Done(p, r)
       ELSE wire' = [wire EXCEPT ![p] = Tail(@)] /\ UNCHANGED <<kind, keys, curOp, res, multi, queue>>

\* SET of setStringByExpire.
DoSet(p) == At(p, "SET") /\ Immediate(p, Nil(<<>>))

\* DEL of DelString, which wants a key that existed.
DoDel(p) ==
    /\ At(p, "DEL")
    /\ Immediate(p, IF ReplyTo(db["string"], Head(wire[p])) = 0 THEN Failed ELSE Nil(<<>>))

\* HSET of SetHash and HDEL of DelMuchHash; the counts they reply are not used.
DoHset(p) == At(p, "HSET") /\ Immediate(p, Nil(<<>>))
DoHdel(p) == At(p, "HDEL") /\ Immediate(p, Nil(<<>>))

\* HINCRBY, which the server refuses for a field that SetHash wrote.
DoHincrby(p) ==
    LET v == db["hash"][Head(wire[p]).keys[1]] IN
    /\ At(p, "HINCRBY")
    /\ IF v # Absent /\ kind[v] # "hincrby"
       THEN Finish(p, Failed) /\ UNCHANGED <<db, ttl, list, past, applied, refused>>
       ELSE Immediate(p, Nil(<<>>))

AtExec(p) == curOp[p] # NoOp /\ Head(wire[p]).name = "EXEC" /\ multi[p]

\* EXEC: the queued commands take effect together and are answered in order.
DoExec(p) ==
    LET op == kind[curOp[p]]
        ks == keys[curOp[p]]
        reply == Replies(db[Table(op)], queue[p], curOp[p])
    IN  /\ AtExec(p) /\ Change(p, queue[p])
        /\ Done(p, CASE op \in {"setMuch", "setMuchHash"} -> Nil(<<>>)
                     [] op = "getMuch" -> Nil(RetMap(ks, reply))
                     [] op = "getMuchJSON" -> Decode(ks, reply)
                     [] op = "delMuch" -> Nil(DelMap(ks, reply)))

\* EXEC of commands that the server refuses one by one: SET with an expiry such
\* as "0", or HSET while the name of the hash holds a value of another type.  Do
\* makes no error of elements of its reply, so the operation returns none.
DoExecRefused(p) ==
    /\ AtExec(p) /\ queue[p] # <<>>
    /\ \/ kind[curOp[p]] = "setMuch"
       \/ kind[curOp[p]] = "setMuchHash" /\ \A f \in Key : db["hash"][f] = Absent
    /\ Done(p, Nil(<<>>))
    /\ refused' = refused \cup {curOp[p]} /\ UNCHANGED <<db, ttl, list, past, applied>>

\* One command that reads.
DoRead(p) ==
    /\ At(p, "READ")
    /\ \E r \in Reading(kind[curOp[p]], keys[curOp[p]]) : Done(p, r)
    /\ applied' = applied \cup {curOp[p]} /\ UNCHANGED <<db, ttl, list, past, refused>>

\* EXPIRE of EXPlREInsert, which does nothing to a missing key.
DoExpire(p) ==
    /\ At(p, "EXPIRE")
    /\ ttl' = ttl \cup {k \in Range(Head(wire[p]).keys) : db["string"][k] # Absent}
    /\ Done(p, Nil(<<>>))
    /\ applied' = applied \cup {curOp[p]} /\ UNCHANGED <<db, list, past, refused>>

\* The list becomes l.
SetTo(l) == list' = l /\ past' = past \cup {<<db, l>>} /\ UNCHANGED <<db, ttl, refused>>

\* LPUSH or RPUSH of all the values; the server refuses a push of none.
DoPush(p) ==
    LET vs == [j \in DOMAIN Head(wire[p]).keys |-> <<curOp[p], Head(wire[p]).keys[j]>>] IN
    /\ At(p, "PUSH")
    /\ IF vs = <<>> THEN Finish(p, Failed) /\ UNCHANGED <<db, ttl, list, past, applied, refused>>
       ELSE /\ \E l \in {Reverse(vs) \o list, list \o vs} : SetTo(l)
            /\ applied' = applied \cup {curOp[p]}
            /\ IF Len(wire[p]) = 1 THEN Done(p, Nil(<<>>))
               ELSE /\ wire' = [wire EXCEPT ![p] = Tail(@)]
                    /\ UNCHANGED <<kind, keys, curOp, res, multi, queue>>

\* LTRIM of LtrimList.
DoLtrim(p) ==
    /\ At(p, "LTRIM")
    /\ \E a, b \in Index : SetTo(Part(a, b))
    /\ applied' = applied \cup {curOp[p]} /\ Done(p, Nil(<<>>))

\* ListPop without block: the timeout stands where the server takes a count;
\* the server refuses it, or removes that many and replies with an array, which
\* ListPop's assertion to []byte rejects.  Nothing there is an error as well.
DoPop(p) ==
    /\ At(p, "POP")
    /\ \E n \in 0..MaxTimeout, left \in BOOLEAN : SetTo(Shortened(Least(n, Len(list)), left))
    /\ UNCHANGED applied
    /\ Done(p, Failed)

\* ListPop with block: one element is removed, and the reply is the pair of the
\* list's name and the element, which the assertion rejects; after the timeout
\* the reply is nil.
DoPopBlock(p) ==
    /\ At(p, "BPOP")
    /\ \E left \in BOOLEAN : SetTo(Shortened(Least(1, Len(list)), left))
    /\ UNCHANGED applied
    /\ Done(p, Failed)

\* RPOPListValue: RPOP with the count 100, or refused.
DoRpop(p) ==
    /\ At(p, "RPOP")
    /\ \/ /\ SetTo(Shortened(Least(100, Len(list)), FALSE))
          /\ applied' = applied \cup {curOp[p]} /\ Done(p, Nil(<<>>))
       \/ Finish(p, Failed) /\ UNCHANGED <<db, ttl, list, past, applied, refused>>

\* The connection of p breaks before all its commands have arrived, or the server
\* refuses the only one: an expiry such as "0", a value of another type.
Break(p) ==
    /\ Faults /\ curOp[p] # NoOp
    /\ Finish(p, OnError(kind[curOp[p]]))
    /\ UNCHANGED <<db, ttl, list, past, applied, refused>>

-----------------------------------------------------------------------------
DataNext ==
    \/ \E p \in Session :
        \/ \E i \in OpId : IsNext(p, i) /\ \E op \in Together(i) :
                            \E ks \in KeysOf(op) : Begin(p, i, op, ks)
        \/ Queued(p) \/ DoSet(p) \/ DoDel(p) \/ DoExec(p) \/ DoExecRefused(p)
        \/ DoRead(p) \/ DoExpire(p)
        \/ DoHset(p) \/ DoHdel(p) \/ DoHincrby(p)
        \/ DoPush(p) \/ DoLtrim(p) \/ DoPop(p) \/ DoPopBlock(p) \/ DoRpop(p)
        \/ Break(p)
    \/ \E k \in Key : Expired(k)

DataSpec == DataInit /\ [][DataNext]_dataVars

-----------------------------------------------------------------------------
(* Properties.                                                             *)

\* Types; a key with a time to live exists.
DataTypeOK ==
    /\ kind \in [OpId -> AllDataOps \cup {NoOp}]
    /\ keys \in [OpId -> KeyLists]
    /\ curOp \in [Session -> OpId \cup {NoOp}]
    /\ multi \in [Session -> BOOLEAN]
    /\ db \in [{"string", "hash"} -> [Key -> OpId \cup {Absent, Other}]]
    /\ \A f \in Key : db["hash"][f] # Other
    /\ \A k \in ttl : db["string"][k] # Absent
    /\ list \in Seq(OpId \X Key) /\ applied \subseteq OpId
    /\ \A i \in OpId : res[i].err \in {"pending", "err", "nil"}

\* What a result v says of the content m, for each operation that reads several
\* keys, fields or elements.
Agrees(v, m) == \A k \in DOMAIN v : v[k] = m[1]["string"][k]
AllValues(v, ks, m) == v = [k \in Range(ks) |-> TextOf(m[1]["string"][k])]
NamedOnce(ks, k) == \A j, l \in DOMAIN ks : ks[j] = k /\ ks[l] = k => j = l
AllDeleted(v, ks, m) ==
    v = [k \in Range(ks) |-> m[1]["string"][k] # Absent /\ NamedOnce(ks, k)]
AllKeys(v, m) == v = <<{k \in Key : m[1]["string"][k] # Absent}>>
AllFields(v, m) ==
    DOMAIN v = {f \in Key : m[1]["hash"][f] # Absent} /\ \A f \in DOMAIN v : v[f] = m[1]["hash"][f]
PartOf(v, m) == v = <<>> \/ \E a, b \in DOMAIN m[2] : v = SubSeq(m[2], a, b)

\* What r says to an operation op on ks is true of the content m.
TrueOf(op, ks, r, m) ==
    /\ op = "getMuchJSON" /\ r.err # "pending" => Agrees(r.val, m)
    /\ op = "getMuch" /\ r.err = "nil" => AllValues(r.val, ks, m)
    /\ op = "delMuch" /\ r.err = "nil" => AllDeleted(r.val, ks, m)
    /\ op = "keys" /\ r.err = "nil" => AllKeys(r.val, m)
    /\ op = "getAllHash" /\ r.err = "nil" => AllFields(r.val, m)
    /\ op = "lrange" /\ r.err = "nil" => PartOf(r.val, m)

\* A read of several keys, fields or elements returns what they held together at
\* one moment, each value under its own key, although other connections write
\* between its commands and keys expire; so does what GetMuchStringJSON filled
\* in before it failed, and what DelMuchString says of the keys it deleted.  Of
\* keys of another type GetMuchString says what it says of missing ones, and
\* DelMuchString calls a key not deleted that it was given twice.
SnapshotReads == \A i \in OpId : \E m \in past : TrueOf(kind[i], keys[i], res[i], m)

\* The values of one setList stand next to each other in the list, in the order
\* given or its reverse, whoever pushes, pops or trims at the same time.
PushedTogether ==
    \A i \in OpId :
        LET at == {j \in DOMAIN list : list[j][1] = i}
            order == {keys[i], Reverse(keys[i])}
        IN  /\ \A j, k \in at : \A m \in j..k : m \in at
            /\ at # {} =>
                 \E o \in order, d \in 0..Len(keys[i]) :
                    LET first == CHOOSE j \in at : \A k \in at : j <= k
                    IN  \A j \in at : list[j][2] = o[j - first + 1 + d]

\* An operation that reports no error has had its effect, whatever broke, but
\* for three: SetStringJSONExpire reports none when it should, and the
\* transactions of SetMuchStringExpire and SetMuchHashJSON report none when the
\* server ran them and refused what they write.
NilIsApplied ==
    \A i \in OpId :
        kind[i] # "setStringJSON" /\ res[i].err = "nil" =>
            i \in applied \/ (i \in refused /\ kind[i] \in {"setMuch", "setMuchHash"})

\* Strings and hash change by whole operations, all the keys or fields that a
\* ...Much... function was given or none, or by a key that expires.
WholeWrites ==
    [][\/ \E k \in ttl : db' = [db EXCEPT !["string"][k] = Absent]
       \/ \E p \in Session :
            LET i == curOp[p]
                new == IF kind[i] \in {"delString", "delMuch", "delMuchHash"} THEN Absent ELSE i
            IN  /\ i # NoOp
                /\ db' = [db EXCEPT ![Table(kind[i])] =
                             [k \in Key |-> IF k \in Range(keys[i]) THEN new ELSE @[k]]]]_db

\* What callers were told agrees with what the server did in every state.
DataInv == DataTypeOK /\ NilIsApplied /\ SnapshotReads /\ PushedTogether

=============================================================================
