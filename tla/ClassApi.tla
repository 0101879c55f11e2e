------------------------------ MODULE ClassApi ------------------------------
(***************************************************************************)
(* The class API: what a class method that runs for one op of a client's    *)
(* message gets from, and does to, the object. Every cls_* call sends the   *)
(* cache a request of one op. For a reading call the answer is encoded into *)
(* op 0 of the message, so the call first swaps the client's ops for a      *)
(* vector of its own, and decodes the answer from there after swapping      *)
(* back. A writing call leaves the client's ops in place.                   *)
(*                                                                          *)
(* Strings are numbers, 0 being the empty one. Encoded data is a sequence   *)
(* of tokens: an encoded count, string or flag, or raw bytes; a decoder that *)
(* does not meet the token it wants runs over the end of the buffer (the    *)
(* flag is one byte, a string at least four) and returns -EIO.              *)
(***************************************************************************)
EXTENDS Integers, Sequences, FiniteSets, SequencesExt

CONSTANTS
  Keys,     \* omap keys: positive
  Values,   \* omap and xattr values, data and headers: 0 is the empty one
  NumOps,   \* ops in the client's message
  MaxCalls  \* bound: cls_* calls of one method

ASSUME ApiAssumption ==
  /\ Keys \subseteq Nat \ {0} /\ IsFiniteSet(Keys)
  /\ Values \subseteq Nat /\ 0 \in Values
  /\ NumOps \in Nat \ {0} /\ MaxCalls \in Nat

VARIABLES
  object,  \* the object in the cache: [data, omap, header, attrs], data -1: no object
  ops,     \* MOSDOp::ops of the client: outdata of each op
  local,   \* the call's own vector while it is swapped out, else <<>>
  opId,    \* SaOpContext::opId
  call,    \* the call in progress, or NoCall
  phase,   \* where OSA_ExecClass stands
  answer,  \* the last answer of cbFunc, 0 or -1
  got,     \* what the last call gave the method
  copyup,  \* the data of the rbd.copyup in progress, or -1
  calls,   \* calls made so far by the method
  seen,    \* history: the object when the last call's request reached the cache
  output   \* history: what the methods returned as the output of each op

vars == <<object, ops, local, opId, call, phase, answer, got, copyup, calls, seen, output>>

NoCall == [sub |-> "none", swap |-> FALSE]
NoObject == [data |-> -1, omap |-> <<>>, header |-> 0, attrs |-> <<>>]
EIO == [r |-> "EIO"]
ENOENT == [r |-> "ENOENT"]
Failed == [r |-> "failed"]
Ok(v) == [r |-> "ok", val |-> v]

-----------------------------------------------------------------------------
(* Maps keyed by string: an iteration goes in the order of the keys.        *)

InOrder(S) ==
  CHOOSE s \in [1..Cardinality(S) -> S] :
    ToSet(s) = S /\ \A i, j \in DOMAIN s : i < j => s[i] < s[j]

\* The first n pairs, key and value, that f has for the keys of a sequence.
PairsOf(f, keys, n) == [i \in 1..n |-> <<keys[i], f[keys[i]]>>]
Pairs(f) == PairsOf(f, InOrder(DOMAIN f), Cardinality(DOMAIN f))

-----------------------------------------------------------------------------
(* The encoders the cache calls with what it has found: keys, or pairs of   *)
(* key and value, in the order of the keys.                                 *)

Num(n) == <<"num", n>>
Str(s) == <<"str", s>>
Flag == <<"flag", 0>>
Raw(s) == <<"raw", s>>

\* Mutant: the count leaves out the last key.
EncodeOmapGetkeysShort(keys) ==
  <<Num(IF keys = <<>> THEN 0 ELSE Len(keys) - 1)>> \o [i \in DOMAIN keys |-> Str(keys[i])] \o <<Flag>>

EncodeOmapGetkeys(keys) ==
  <<Num(Len(keys))>> \o [i \in DOMAIN keys |-> Str(keys[i])] \o <<Flag>>

StrIfAny(s) == IF s = 0 THEN <<>> ELSE <<Str(s)>>

\* An empty key or value is counted but not encoded.
EncodeOmapGetvals(kvs) ==
  <<Num(Len(kvs))>> \o FlattenSeq([i \in DOMAIN kvs |-> StrIfAny(kvs[i][1]) \o StrIfAny(kvs[i][2])])
                    \o <<Flag>>

\* The encoding of a map<string, bufferlist>.
EncodeMap(kvs) ==
  <<Num(Len(kvs))>> \o FlattenSeq([i \in DOMAIN kvs |-> <<Str(kvs[i][1]), Str(kvs[i][2])>>])

EncodeOmapGetvalsbykeys(kvs) == EncodeMap(kvs)
EncodeXattrGetXattrs(kvs) == EncodeMap(kvs)
EncodeXattrGetXattr(kvs) == [i \in DOMAIN kvs |-> Raw(kvs[i][2])]
EncodeRead(v) == <<Raw(v)>>
\* The size and the time of the last change, of which only the place matters:
\* the calls take it apart again, but no property tells times apart.
EncodeGetOpstat(size) == <<Num(size), Num(0)>>

-----------------------------------------------------------------------------
(* The decoders of the calls.                                               *)

\* n strings from position i on.
HasStrings(bl, i, n) ==
  Len(bl) >= i + n - 1 /\ \A j \in i..(i + n - 1) : bl[j][1] = "str"

\* decode(set) and decode(bool)
DecodeKeys(bl) ==
  LET n == bl[1][2]
  IN IF HasStrings(bl, 2, n) /\ Len(bl) >= n + 2 /\ bl[n + 2] = Flag
     THEN Ok({bl[j][2] : j \in 2..(n + 1)})
     ELSE EIO

\* decode(map): a key that comes again takes the later value.
MapAt(bl, n) ==
  [k \in {bl[2 * j][2] : j \in 1..n} |->
     LET last == CHOOSE j \in 1..n : bl[2 * j][2] = k /\ \A i \in (j + 1)..n : bl[2 * i][2] # k
     IN bl[2 * last + 1][2]]

DecodeMap(bl) ==
  LET n == bl[1][2] IN IF HasStrings(bl, 2, 2 * n) THEN Ok(MapAt(bl, n)) ELSE EIO

\* decode(map) and decode(bool)
DecodeVals(bl) ==
  LET n == bl[1][2]
  IN IF HasStrings(bl, 2, 2 * n) /\ Len(bl) >= 2 * n + 2 /\ bl[2 * n + 2] = Flag
     THEN Ok(MapAt(bl, n))
     ELSE EIO

\* The first entry of the map, whatever key was asked for.
DecodeVal(bl) ==
  LET m == DecodeMap(bl)
  IN IF m = EIO THEN EIO
     ELSE IF DOMAIN m.val = {} THEN ENOENT
     ELSE Ok(m.val[CHOOSE k \in DOMAIN m.val : \A j \in DOMAIN m.val : k <= j])

DecodeRaw(bl) == Ok(FlattenSeq([i \in DOMAIN bl |-> <<bl[i][2]>>]))

DecodeStat(bl) == IF Len(bl) >= 2 THEN Ok(bl[1][2]) ELSE EIO

-----------------------------------------------------------------------------
(* The calls: the request each one sends, and whether it swaps.             *)

Reading(sub, arg) == [sub |-> sub, swap |-> TRUE, arg |-> arg]
Writing(sub, arg) == [sub |-> sub, swap |-> FALSE, arg |-> arg]

cls_getxattr(name) == Reading("GETXATTR", name)
cls_setxattr(name, v) == Writing("SETXATTR", <<<<name, v>>>>)
cls_cxx_create == Writing("CREATE", <<>>)
cls_cxx_remove == Writing("DELETE", <<>>)
cls_cxx_stat == Reading("STAT", 0)
cls_cxx_stat2 == Reading("STAT", 0)
cls_cxx_read2 == Reading("SYNC_READ", 0)
cls_cxx_write2(v) == Writing("WRITE", v)
cls_cxx_write_full(v) == Writing("WRITEFULL", v)
cls_cxx_getxattr(name) == Reading("GETXATTR", name)
cls_cxx_getxattrs == Reading("GETXATTRS", 0)
cls_cxx_setxattr(name, v) == Writing("SETXATTR", <<<<name, v>>>>)
\* start_after is empty and max_return the largest number there is.
cls_cxx_map_get_all_vals == Reading("OMAPGETVALS", [start |-> 0, max |-> Cardinality(Keys)])
cls_cxx_map_get_keys(start, max) == Reading("OMAPGETKEYS", [start |-> start, max |-> max])
cls_cxx_map_get_vals(start, max) == Reading("OMAPGETVALS", [start |-> start, max |-> max])
cls_cxx_map_read_header == Reading("OMAPGETHEADER", 0)
cls_cxx_map_get_val(key) == Reading("OMAPGETVALSBYKEYS", key)
cls_cxx_map_set_val(key, v) == Writing("OMAPSETVALS", <<<<key, v>>>>)
\* The pairs of the map, as parallel vectors of keys and values.
cls_cxx_map_set_vals(m) == Writing("OMAPSETVALS", Pairs(m))
cls_cxx_map_clear == Writing("OMAPCLEAR", <<>>)
cls_cxx_map_write_header(v) == Writing("OMAPSETHEADER", v)
cls_cxx_map_remove_key(key) == Writing("OMAPRMKEYS", key)

ReadingCalls ==
  {cls_getxattr(1), cls_cxx_stat, cls_cxx_stat2, cls_cxx_read2, cls_cxx_getxattr(1), cls_cxx_getxattrs,
   cls_cxx_map_get_all_vals, cls_cxx_map_read_header}
  \cup {cls_cxx_map_get_keys(s, m) : s \in Keys \cup {0}, m \in {1, Cardinality(Keys)}}
  \cup {cls_cxx_map_get_vals(s, m) : s \in Keys \cup {0}, m \in {1, Cardinality(Keys)}}
  \cup {cls_cxx_map_get_val(k) : k \in Keys}

WritingCalls ==
  {cls_cxx_create, cls_cxx_remove, cls_cxx_map_clear}
  \cup {cls_setxattr(1, v) : v \in Values} \cup {cls_cxx_setxattr(1, v) : v \in Values}
  \cup {cls_cxx_write2(v) : v \in Values} \cup {cls_cxx_write_full(v) : v \in Values}
  \cup {cls_cxx_map_write_header(v) : v \in Values}
  \cup {cls_cxx_map_set_val(k, v) : k \in Keys, v \in Values}
  \cup {cls_cxx_map_set_vals(m) : m \in [Keys -> Values]}
  \cup {cls_cxx_map_remove_key(k) : k \in Keys}

-----------------------------------------------------------------------------
(* The cache, behind cbFunc.                                                *)

\* What the cache lists: keys after the start, at most max of them.
Listed(o, arg) ==
  LET after == {k \in DOMAIN o.omap : k > arg.start}
      n == Cardinality(after)
  IN PairsOf(o.omap, InOrder(after), IF n < arg.max THEN n ELSE arg.max)

Answer(c, o) ==
  CASE c.sub = "GETXATTR" -> EncodeXattrGetXattr(<<<<c.arg, o.attrs[c.arg]>>>>)
    [] c.sub = "GETXATTRS" -> EncodeXattrGetXattrs(Pairs(o.attrs))
    [] c.sub = "STAT" -> EncodeGetOpstat(o.data)
    [] c.sub = "SYNC_READ" -> EncodeRead(o.data)
    [] c.sub = "OMAPGETHEADER" -> EncodeRead(o.header)
    [] c.sub = "OMAPGETKEYS" -> EncodeOmapGetkeys([i \in DOMAIN Listed(o, c.arg) |-> Listed(o, c.arg)[i][1]])
    [] c.sub = "OMAPGETVALS" -> EncodeOmapGetvals(Listed(o, c.arg))
    [] c.sub = "OMAPGETVALSBYKEYS" -> EncodeOmapGetvalsbykeys(Pairs([k \in DOMAIN o.omap \cap {c.arg} |-> o.omap[k]]))

CanAnswer(c, o) ==
  /\ c.swap \/ c.sub = "DELETE" => o.data # -1
  /\ c.sub = "GETXATTR" => c.arg \in DOMAIN o.attrs

WithPairs(f, kvs) ==
  [k \in DOMAIN f \cup {kvs[i][1] : i \in DOMAIN kvs} |->
     IF \E i \in DOMAIN kvs : kvs[i][1] = k
     THEN kvs[CHOOSE i \in DOMAIN kvs : kvs[i][1] = k][2]
     ELSE f[k]]

Applied(c, o) ==
  LET new == IF o.data = -1 THEN [o EXCEPT !.data = 0] ELSE o
  IN CASE c.sub = "CREATE" -> new
       [] c.sub = "DELETE" -> NoObject
       [] c.sub \in {"WRITE", "WRITEFULL"} -> [new EXCEPT !.data = c.arg]
       [] c.sub = "SETXATTR" -> [new EXCEPT !.attrs = WithPairs(@, c.arg)]
       [] c.sub = "OMAPSETVALS" -> [new EXCEPT !.omap = WithPairs(@, c.arg)]
       [] c.sub = "OMAPCLEAR" -> [new EXCEPT !.omap = <<>>]
       [] c.sub = "OMAPSETHEADER" -> [new EXCEPT !.header = c.arg]
       [] c.sub = "OMAPRMKEYS" -> [new EXCEPT !.omap = [k \in DOMAIN @ \ {c.arg} |-> @[k]]]

\* cbFunc answers: it may fail, and then has done nothing.
CacheAnswers(r) ==
  /\ phase = "cache"
  /\ r = 0 => CanAnswer(call, object)
  /\ answer' = r
  /\ seen' = object
  /\ IF r = 0 /\ call.swap
     THEN ops' = [ops EXCEPT ![1] = @ \o Answer(call, object)] /\ UNCHANGED object
     ELSE object' = (IF r = 0 THEN Applied(call, object) ELSE object) /\ UNCHANGED ops
  /\ phase' = "back"
  /\ UNCHANGED <<local, opId, call, got, copyup, calls, output>>

-----------------------------------------------------------------------------
(* One cls_* call.                                                          *)

\* ops.swap(ptr->ops) with a vector of one op.
SwapOut(c) ==
  IF c.swap THEN local' = ops /\ ops' = <<<<>>>> ELSE UNCHANGED <<local, ops>>

Request(c) ==
  /\ SwapOut(c)
  /\ call' = c
  /\ calls' = calls + 1
  /\ phase' = "cache"

\* Mutant: an error returns before the second swap.
SwapBackIfAnswered ==
  IF call.swap /\ answer = 0 THEN ops' = local /\ local' = <<>> ELSE UNCHANGED <<local, ops>>

\* The second swap comes before the test for an error.
SwapBack ==
  IF call.swap THEN ops' = local /\ local' = <<>> ELSE UNCHANGED <<local, ops>>

Decoded(c, bl) ==
  CASE c.sub \in {"GETXATTR", "SYNC_READ", "OMAPGETHEADER"} -> DecodeRaw(bl)
    [] c.sub = "STAT" -> DecodeStat(bl)
    [] c.sub = "GETXATTRS" -> DecodeMap(bl)
    [] c.sub = "OMAPGETKEYS" -> DecodeKeys(bl)
    [] c.sub = "OMAPGETVALS" -> DecodeVals(bl)
    [] c.sub = "OMAPGETVALSBYKEYS" -> DecodeVal(bl)
    [] OTHER -> Ok(0)

CallReturns ==
  /\ phase = "back"
  /\ got' = IF answer < 0 THEN Failed ELSE Decoded(call, ops[1])
  /\ SwapBack
  /\ phase' = "method"
  /\ UNCHANGED <<object, opId, call, answer, copyup, calls, seen, output>>

-----------------------------------------------------------------------------
(* OSA_ExecClass for the ops of a message, one after the other.             *)

Init ==
  /\ object = NoObject
  /\ ops = [i \in 1..NumOps |-> <<>>]
  /\ local = <<>>
  /\ opId = 1
  /\ call = NoCall
  /\ phase = "exec"
  /\ answer = 0
  /\ got = Ok(0)
  /\ copyup = -1
  /\ calls = 0
  /\ seen = NoObject
  /\ output = [i \in 1..NumOps |-> <<>>]

\* method->exec
ExecMethod ==
  /\ phase = "exec"
  /\ phase' = "method"
  /\ UNCHANGED <<object, ops, local, opId, call, answer, got, copyup, calls, seen, output>>

MethodCalls(c) ==
  /\ phase = "method" /\ copyup = -1 /\ calls < MaxCalls
  /\ Request(c)
  /\ UNCHANGED <<object, opId, answer, got, copyup, seen, output>>

\* cls_cxx_read2 refuses a length of 0 or less, or of INT_MAX - 2 or more,
\* before it touches the message.
ReadRefused ==
  /\ phase = "method" /\ copyup = -1 /\ calls < MaxCalls
  /\ got' = [r |-> "EINVAL"]
  /\ call' = NoCall
  /\ calls' = calls + 1
  /\ UNCHANGED <<object, ops, local, opId, phase, answer, copyup, seen, output>>

\* The next op of the message, or, after the last, the reply takes the ops'
\* output and a new message comes.
NextOp(out) ==
  /\ LET done == [output EXCEPT ![opId] = out]
         full == [ops EXCEPT ![opId] = @ \o out]
     IN IF opId < NumOps
        THEN opId' = opId + 1 /\ ops' = full /\ output' = done
        ELSE opId' = 1 /\ ops' = [i \in 1..NumOps |-> <<>>] /\ output' = [i \in 1..NumOps |-> <<>>]
  /\ phase' = "exec"
  /\ call' = NoCall
  /\ calls' = 0
  /\ copyup' = -1
  /\ answer' = 0 /\ got' = Ok(0) /\ seen' = NoObject
  /\ UNCHANGED <<object, local>>

\* The output is kept only if the method returned 0.
MethodReturns(r, v) ==
  /\ phase = "method" /\ copyup = -1
  /\ NextOp(IF r = 0 THEN <<Raw(v)>> ELSE <<>>)

\* rbd.copyup: a stat of the object first ...
CopyupStat(v) ==
  /\ phase = "exec"
  /\ copyup' = v
  /\ Request(cls_cxx_stat2)
  /\ UNCHANGED <<object, opId, answer, got, seen, output>>

\* Mutant: the copyup writes whatever the stat has said.
AlwaysAbsent == TRUE

\* ... any failure of which counts as: there is no object ...
StatSaysAbsent == got.r # "ok"

\* ... and then the parent's data is written.
CopyupWrite ==
  /\ phase = "method" /\ copyup # -1
  /\ call = cls_cxx_stat2 /\ StatSaysAbsent
  /\ Request(cls_cxx_write2(copyup))
  /\ UNCHANGED <<object, opId, answer, got, copyup, seen, output>>

CopyupReturns ==
  /\ phase = "method" /\ copyup # -1
  /\ call = cls_cxx_stat2 => got.r = "ok"
  /\ NextOp(<<>>)

Next ==
  \/ ExecMethod \/ CallReturns \/ ReadRefused \/ CopyupWrite \/ CopyupReturns
  \/ \E c \in ReadingCalls \cup WritingCalls : MethodCalls(c)
  \/ \E r \in {0, -1} : CacheAnswers(r)
  \/ \E r \in {0, -1}, v \in Values : MethodReturns(r, v)
  \/ \E v \in Values : CopyupStat(v)

Spec == Init /\ [][Next]_vars

-----------------------------------------------------------------------------
\* What a reading call should give for the object o.
Reference(c, o) ==
  LET keys == {k \in DOMAIN o.omap :
                 /\ k > c.arg.start
                 /\ Cardinality({j \in DOMAIN o.omap : c.arg.start < j /\ j < k}) < c.arg.max}
  IN CASE c.sub = "GETXATTR" -> Ok(<<o.attrs[c.arg]>>)
       [] c.sub = "GETXATTRS" -> Ok(o.attrs)
       [] c.sub = "STAT" -> Ok(o.data)
       [] c.sub = "SYNC_READ" -> Ok(<<o.data>>)
       [] c.sub = "OMAPGETHEADER" -> Ok(<<o.header>>)
       [] c.sub = "OMAPGETKEYS" -> Ok(keys)
       [] c.sub = "OMAPGETVALS" ->
            IF \E k \in keys : o.omap[k] = 0 THEN EIO ELSE Ok([k \in keys |-> o.omap[k]])
       [] c.sub = "OMAPGETVALSBYKEYS" ->
            IF c.arg \in DOMAIN o.omap THEN Ok(o.omap[c.arg]) ELSE ENOENT

\* A reading call that the cache has answered gives the method exactly what
\* the object holds, through the encoders of network_module.cpp and the
\* decoders of class_api.cc, but for one case: a listing of omap values in
\* which one is empty is refused with -EIO, never shown wrong or cut.
CallExact ==
  phase = "method" /\ call.swap /\ answer = 0 => got = Reference(call, seen)

\* When no call is in progress the client's ops are in place, and hold what
\* the methods returned and nothing an inner call read, whichever calls
\* failed (the two swaps of every reading call).
OpsRestored ==
  phase \in {"exec", "method"} => ops = output /\ local = <<>>

\* rbd.copyup changes an object that exists only if the stat of it failed
\* (OSA_ExecClass takes any error of cls_cxx_stat2 for a missing object).
CopyupKeepsData ==
  [][copyup # -1 /\ object.data # -1 /\ object' # object => got = Failed]_vars
=============================================================================
