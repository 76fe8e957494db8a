-------------------------------- MODULE UMap --------------------------------
(***************************************************************************)
(* The concurrent maps of package umap.  MapEx (util/umap/mapEx.go)        *)
(* spreads the keys over hashMapNum maps with a lock each; Map             *)
(* (util/umap/map.go) is one map with one lock, taken here as one stripe.  *)
(* An operation on one key holds one lock.  Len, the ranges and ClearMap   *)
(* take the locks one after the other, so others work on the map between   *)
(* two stripes.                                                            *)
(*                                                                         *)
(* A MapEx that Init has not given any stripes ignores its keys.  Get and  *)
(* LockGet only read.  The function given to LockSet adds one to the value *)
(* (or starts at one), the one given to LockRange may UnsafeDel its key.   *)
(***************************************************************************)
EXTENDS Naturals, FiniteSets

CONSTANTS MapGo,          \* the goroutines that use the map
          MapKey,
          HashCode,       \* hash.HashNumber of each key
          HashMapNums,    \* arguments of MapEx.Init
          DefaultNum,     \* DEFAULT_SAFE_MAP_MAX_HASH_NUM (10 in the code)
          MaxVal          \* bound on the values

ASSUME UMapAssumption ==
    /\ IsFiniteSet(MapKey) /\ HashCode \in [MapKey -> Nat]
    /\ HashMapNums \subseteq Nat \ {0} /\ DefaultNum \in Nat \ {0} /\ MaxVal \in Nat \ {0}

VARIABLES
    mapKind,       \* none (a MapEx with no stripes), MapEx or Map
    hashMapNum,    \* the number of stripes
    mapVal,        \* the value of each key, 0 when it is absent
    mapGo,         \* the operation of each goroutine
    mapPanic       \* an index out of range

mapVars == <<mapKind, hashMapNum, mapVal, mapGo, mapPanic>>

Ranges == {"RLockRange", "LockRange"}
Walks == Ranges \cup {"Len", "ClearMap"}
Updates == {"LockSet", "TestAndSet"}

\* at: the stripe; held: its lock is held; ret: the value read; todo, out: the
\* keys a range still has to pass to f and has passed; sum: the result of Len;
\* always, ever: history, the keys present since the start of the walk
\* without a break, and at any time since.
MapIdle ==
    [op |-> "none", key |-> CHOOSE k \in MapKey : TRUE, at |-> 0, held |-> FALSE,
     ret |-> 0, sum |-> 0, todo |-> {}, out |-> {}, always |-> {}, ever |-> {}]

MapTypeOK ==
    /\ mapKind \in {"none", "MapEx", "Map"} /\ hashMapNum \in HashMapNums \cup {0, 1}
    /\ mapVal \in [MapKey -> 0..MaxVal] /\ mapPanic \in BOOLEAN
    /\ \A g \in MapGo : mapGo[g].op \in Walks \cup Updates \cup {"none"}

MapInit ==
    /\ mapKind = "none" /\ hashMapNum = 0 /\ mapVal = [k \in MapKey |-> 0]
    /\ mapGo = [g \in MapGo |-> MapIdle] /\ mapPanic = FALSE

\* NewMapEx and Init, before the map is shared.
MapExInit(n) ==
    /\ mapKind = "none" /\ mapKind' = "MapEx" /\ hashMapNum' = n
    /\ UNCHANGED <<mapVal, mapGo, mapPanic>>

\* A Map needs no constructor: each writer makes the map if there is none.
UseMap ==
    /\ mapKind = "none" /\ mapKind' = "Map" /\ hashMapNum' = 1
    /\ UNCHANGED <<mapVal, mapGo, mapPanic>>

-----------------------------------------------------------------------------
GetArrayIdByKey(k) == HashCode[k] % hashMapNum

\* The keys of stripe i, and those of stripes below i.
Stripe(i) == {k \in MapKey : GetArrayIdByKey(k) = i /\ mapVal[k] # 0}
InStripesBelow(K, i) == {k \in K : GetArrayIdByKey(k) < i}
KeysOf(mv) == {k \in MapKey : mv[k] # 0}

\* Nobody holds the lock of stripe i; nobody holds it for writing.
Free(i) == \A h \in MapGo : ~(mapGo[h].held /\ mapGo[h].at = i)
FreeToRead(i) == \A h \in MapGo : mapGo[h].held /\ mapGo[h].at = i => mapGo[h].op = "RLockRange"

\* The map becomes mv and the goroutines go; what was present is remembered.
Becomes(mv, go) ==
    /\ mapVal' = mv
    /\ mapGo' = [h \in MapGo |->
           IF go[h].op \notin Walks THEN go[h]
           ELSE [go[h] EXCEPT !.always = @ \cap KeysOf(mv), !.ever = @ \cup KeysOf(mv)]]
    /\ UNCHANGED <<mapKind, hashMapNum, mapPanic>>

\* Goroutine g goes on as r; the map is left alone.
Proceeds(g, r) == Becomes(mapVal, [mapGo EXCEPT ![g] = r])

MapReady(g) == ~mapPanic /\ mapKind # "none" /\ mapGo[g].op = "none"

-----------------------------------------------------------------------------
(* Operations on one key.                                                  *)

Set(g, k) ==
    /\ MapReady(g) /\ Free(GetArrayIdByKey(k))
    /\ Becomes([mapVal EXCEPT ![k] = 1], mapGo)

\* Mutant of Del: it takes the read lock.
DelReads(g, k) ==
    /\ MapReady(g) /\ mapVal[k] # 0 /\ Becomes([mapVal EXCEPT ![k] = 0], mapGo)

Del(g, k) ==
    /\ MapReady(g) /\ mapVal[k] # 0 /\ Free(GetArrayIdByKey(k))
    /\ Becomes([mapVal EXCEPT ![k] = 0], mapGo)

\* LockSet of MapEx: lock and read; f runs; store and unlock.
LockSet(g, k) ==
    /\ MapReady(g) /\ mapKind = "MapEx" /\ Free(GetArrayIdByKey(k)) /\ mapVal[k] < MaxVal
    /\ Proceeds(g, [MapIdle EXCEPT !.op = "LockSet", !.key = k, !.at = GetArrayIdByKey(k),
                                   !.held = TRUE, !.ret = mapVal[k]])

\* TestAndSet of Map: lock and test; store if the key was absent, and unlock.
TestAndSet(g, k) ==
    /\ MapReady(g) /\ mapKind = "Map" /\ Free(0)
    /\ Proceeds(g, [MapIdle EXCEPT !.op = "TestAndSet", !.key = k, !.held = TRUE,
                                   !.ret = mapVal[k]])

Store(g) ==
    LET r == mapGo[g]
        v == IF r.op = "TestAndSet" /\ r.ret # 0 THEN r.ret ELSE r.ret + 1
    IN  /\ r.op \in Updates
        /\ Becomes([mapVal EXCEPT ![r.key] = v], [mapGo EXCEPT ![g] = MapIdle])

-----------------------------------------------------------------------------
(* Operations that walk over the stripes.                                  *)

\* The stripes a walk visits: ClearMap of MapEx counts to the constant.
Limit(op) == IF op = "ClearMap" /\ mapKind = "MapEx" THEN DefaultNum ELSE hashMapNum

StartWalk(g, op) ==
    /\ MapReady(g)
    /\ Proceeds(g, [MapIdle EXCEPT !.op = op, !.always = KeysOf(mapVal), !.ever = KeysOf(mapVal)])

EndWalk(g) ==
    /\ mapGo[g].op \in Walks /\ mapGo[g].at = Limit(mapGo[g].op) /\ Proceeds(g, MapIdle)

\* g is in op with a stripe before it that it has not locked.
AtStripe(g, op) ==
    ~mapPanic /\ mapGo[g].op = op /\ ~mapGo[g].held /\ mapGo[g].at < Limit(op)

LenStep(g) ==
    /\ AtStripe(g, "Len") /\ FreeToRead(mapGo[g].at)
    /\ Proceeds(g, [mapGo[g] EXCEPT !.sum = @ + Cardinality(Stripe(mapGo[g].at)), !.at = @ + 1])

\* Locks and replaces one map; there may be fewer maps than the loop expects.
ClearStep(g) ==
    /\ AtStripe(g, "ClearMap")
    /\ \/ /\ mapGo[g].at < hashMapNum /\ Free(mapGo[g].at)
          /\ Becomes([k \in MapKey |-> IF k \in Stripe(mapGo[g].at) THEN 0 ELSE mapVal[k]],
                     [mapGo EXCEPT ![g].at = @ + 1])
       \/ /\ mapGo[g].at >= hashMapNum /\ mapPanic' = TRUE
          /\ UNCHANGED <<mapKind, hashMapNum, mapVal, mapGo>>

\* RLockRange and LockRange: lock the stripe, pass its keys to f, unlock.
LockStripe(g, op) ==
    /\ AtStripe(g, op)
    /\ IF op = "RLockRange" THEN FreeToRead(mapGo[g].at) ELSE Free(mapGo[g].at)
    /\ Proceeds(g, [mapGo[g] EXCEPT !.held = TRUE, !.todo = Stripe(mapGo[g].at)])

RangeCall(g, k) ==
    /\ mapGo[g].op \in Ranges /\ k \in mapGo[g].todo
    /\ \E v \in {mapVal[k]} \cup (IF mapGo[g].op = "LockRange" THEN {0} ELSE {}) :
           Becomes([mapVal EXCEPT ![k] = v], [mapGo EXCEPT ![g].todo = @ \ {k}, ![g].out = @ \cup {k}])

UnlockStripe(g) ==
    /\ mapGo[g].op \in Ranges /\ mapGo[g].held /\ mapGo[g].todo = {}
    /\ Proceeds(g, [mapGo[g] EXCEPT !.held = FALSE, !.at = @ + 1])

-----------------------------------------------------------------------------
MapNext ==
    \/ \E g \in MapGo :
        \/ \E k \in MapKey :
               Set(g, k) \/ Del(g, k) \/ LockSet(g, k) \/ TestAndSet(g, k) \/ RangeCall(g, k)
        \/ \E op \in Walks : StartWalk(g, op)
        \/ \E op \in Ranges : LockStripe(g, op)
        \/ Store(g) \/ EndWalk(g) \/ LenStep(g) \/ ClearStep(g) \/ UnlockStripe(g)
    \/ \E n \in HashMapNums : MapExInit(n)
    \/ UseMap

MapSpec == MapInit /\ [][MapNext]_mapVars

-----------------------------------------------------------------------------
(* Properties.                                                             *)

\* What LockSet and TestAndSet read is still there when they store: no update
\* of another goroutine is lost, and only one TestAndSet finds the key absent.
NoLostUpdate ==
    \A g \in MapGo : mapGo[g].op \in Updates => mapGo[g].ret = mapVal[mapGo[g].key]

\* A walk over the stripes is no snapshot.  What it promises is about keys that
\* stay and keys that never were: Len counts the first and not the second, a
\* range passes each of the first to f, once, and none of the second.
WalkIsRegular ==
    \A g \in MapGo :
        LET r == mapGo[g]
            stayed == InStripesBelow(r.always, r.at)
            came == InStripesBelow(r.ever, r.at)
        IN  /\ r.op = "Len" => r.sum \in Cardinality(stayed)..Cardinality(came)
            /\ r.op \in Ranges =>
                   stayed \subseteq r.out /\ r.out \subseteq r.ever /\ r.todo \cap r.out = {}

\* What was in the map when ClearMap began and was not set again is gone, as
\* far as the walk has come; with more stripes than the constant the rest stays.
ClearIsComplete ==
    \A g \in MapGo :
        mapGo[g].op = "ClearMap" => InStripesBelow(mapGo[g].always, mapGo[g].at) = {}

\* The only panic is that of ClearMap with fewer stripes than the constant.
PanicsOnlyInClear == mapPanic => mapKind = "MapEx" /\ hashMapNum < DefaultNum

\* The maps keep their promises whatever goroutines share them.
MapInv == MapTypeOK /\ NoLostUpdate /\ WalkIsRegular /\ ClearIsComplete /\ PanicsOnlyInClear

=============================================================================
