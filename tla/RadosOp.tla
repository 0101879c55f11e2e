------------------------------ MODULE RadosOp ------------------------------
(***************************************************************************)
(* One batch op of the ceph proxy, from CephProxyWriteOpInit2 or            *)
(* CephProxyReadOpInit2 to its release: the builder calls that gather data   *)
(* from scatter-gather lists into the op, its way through the pool worker    *)
(* into librados, and the librados callback that scatters what was read and  *)
(* calls the user back, who may release the op from then on. IoWorkers has   *)
(* the queue between the two; here it is one step.                           *)
(*                                                                           *)
(* A chain is a sequence of SGLs and an SGL the sequence of the lengths of   *)
(* its entries, at most PerSgl; entrySumInSgl is its length. A cell          *)
(* <<i, j, o>> is byte o of entry j of SGL i, and i = 0 for a plain buffer   *)
(* (j = 0) and the align buffers (j = 1, 2); <<k, cell>> is what the cell of *)
(* the k-th call holds.                                                      *)
(***************************************************************************)
EXTENDS Naturals, Sequences, FiniteSets, SequencesExt

CONSTANTS
  Page,        \* DEFAULT_SGL_PAGE
  PerSgl,      \* ENTRY_PER_SGL
  Chains,      \* the chains the user passes
  Lens,        \* the lengths the user passes, all below 2^32: a uint32_t
               \* (leftLen) and a bufferlist count no further
  MaxCalls     \* bound: builder calls for one op

ASSUME RadosOpAssumption ==
  /\ Page \in Nat \ {0} /\ PerSgl \in Nat \ {0} /\ MaxCalls \in Nat
  /\ Lens \subseteq Nat
  /\ Chains \subseteq Seq(Seq(Nat)) /\ <<>> \notin Chains
  /\ \A chain \in Chains : \A i \in DOMAIN chain :
       Len(chain[i]) \in 1..PerSgl /\ \A j \in DOMAIN chain[i] : chain[i][j] \in 1..Page

VARIABLES
  kind,     \* "write", "read", or "none" before the op is created
  alive,    \* the op and its completion have not been released
  asked,    \* the builder calls of the user
  subops,   \* per call the sub-op of librados' op, [code, arg, payload], or NoSubOp
  bl,       \* RadosObjectWriteOp::bl
  req,      \* RadosObjectReadOp::reqCtx: the call each slot belongs to, or 0
  results,  \* RadosObjectReadOp::results
  memory,   \* what each call's destination holds
  stray,    \* the callback has written outside the destinations
  worker,   \* the pool worker: "idle", "queued", "aio", "release", "fail" or "done"
  cb,       \* librados' side: "none", "flying", "fill", "call", "end" or "done"
  rv,       \* what librados returned for the op
  told,     \* calls of the user's callback
  dangling  \* a step has used the op after its release

vars == <<kind, alive, asked, subops, bl, req, results, memory, stray, worker, cb, rv, told, dangling>>
flight == <<worker, cb, rv, told, dangling>>

NoRequest == [buffer |-> 0, sgl |-> 0, xattrs |-> 0, sum |-> 0]

Fresh(k) ==
  /\ kind' = k /\ alive' = (k # "none")
  /\ asked' = <<>> /\ subops' = <<>> /\ bl' = <<>>
  /\ req' = NoRequest /\ results' = <<>> /\ memory' = <<>> /\ stray' = FALSE
  /\ worker' = "idle" /\ cb' = "none" /\ rv' = 0 /\ told' = 0 /\ dangling' = FALSE

Init ==
  /\ kind = "none" /\ alive = FALSE
  /\ asked = <<>> /\ subops = <<>> /\ bl = <<>>
  /\ req = NoRequest /\ results = <<>> /\ memory = <<>> /\ stray = FALSE
  /\ worker = "idle" /\ cb = "none" /\ rv = 0 /\ told = 0 /\ dangling = FALSE

-----------------------------------------------------------------------------
(* Scatter-gather lists                                                     *)

Lesser(m, n) == IF m < n THEN m ELSE n

EntrySum(chain, i) == Len(chain[i])

\* With isRelease entries are whole pages, whatever their length says.
EntrySize(chain, i, j, whole) == IF whole THEN Page ELSE chain[i][j]

EntryCells(i, j, size) == [o \in 1..size |-> <<i, j, o>>]

\* A copying loop: the SGL and the entry it has come to, what is left to copy
\* and the cells it has been through.
LoopStart(len) == [sgl |-> 1, entry |-> 1, left |-> len, cells |-> <<>>]

\* The turn copies size bytes and moves on, to the next SGL after the last entry.
Turn(loop, size, last) ==
  [sgl |-> IF last THEN loop.sgl + 1 ELSE loop.sgl, entry |-> IF last THEN 1 ELSE loop.entry + 1,
   left |-> loop.left - size, cells |-> loop.cells \o EntryCells(loop.sgl, loop.entry, size)]

\* The loop of the four SGL builders goes by the entries in use (entrySumInSgl).
GatherTurn(chain, whole, loop) ==
  IF loop.left = 0 THEN loop
  ELSE Turn(loop, Lesser(EntrySize(chain, loop.sgl, loop.entry, whole), loop.left),
            loop.entry >= EntrySum(chain, loop.sgl))

\* The cells it reads: every turn copies something, so len turns are enough.
Gather(chain, len, whole) ==
  LET turn[n \in 0..len] == IF n = 0 THEN LoopStart(len) ELSE GatherTurn(chain, whole, turn[n - 1])
  IN turn[len].cells

Bytes(k, cells) == [n \in DOMAIN cells |-> <<k, cells[n]>>]
Buffer(k, j, len) == Bytes(k, EntryCells(0, j, len))

Outside == <<0, 0, 0>>

\* Mutant: the index runs one past the array.
PastTheArray(j) == j > PerSgl

\* The loop of ReadCallback goes on to the next SGL after the last entry an
\* SGL has room for (ENTRY_PER_SGL) ...
EndOfSgl(j) == j >= PerSgl

\* ... and so comes to entries that are not in use: a zeroed one is passed
\* over by its length of 0, any other, or a whole page, goes astray.
ScatterTurn(chain, unused, whole, loop) ==
  LET inUse == loop.sgl <= Len(chain) /\ loop.entry <= EntrySum(chain, loop.sgl)
      zeroed == loop.sgl <= Len(chain) /\ unused = "zero" /\ ~whole
  IN IF loop.left = 0 THEN loop
     ELSE IF ~inUse /\ ~zeroed
     THEN [sgl |-> loop.sgl, entry |-> loop.entry, left |-> 0, cells |-> Append(loop.cells, Outside)]
     ELSE Turn(loop, IF inUse THEN Lesser(EntrySize(chain, loop.sgl, loop.entry, whole), loop.left) ELSE 0,
               EndOfSgl(loop.entry))

\* The cells it writes, within as many turns as the chain has room for entries,
\* or one more.
Scatter(chain, unused, len, whole) ==
  LET turn[n \in 0..(Len(chain) * PerSgl + 1)] ==
        IF n = 0 THEN LoopStart(len) ELSE ScatterTurn(chain, unused, whole, turn[n - 1])
  IN turn[Len(chain) * PerSgl + 1].cells

\* The memory of a chain: with isRelease every entry is a page.
Cells(chain, whole) ==
  {cell \in (1..Len(chain)) \X (1..PerSgl) \X (1..Page) :
     cell[2] <= EntrySum(chain, cell[1]) /\ cell[3] <= EntrySize(chain, cell[1], cell[2], whole)}

-----------------------------------------------------------------------------
(* The builder calls. The user makes them before the op is submitted.       *)

\* A call of which only the kind matters.
PlainCall(code) == [code |-> code, arg |-> 1]

\* The op that librados builds gets one more sub-op; mem is the destination
\* the call names, if any.
Add(call, payload, mem) ==
  /\ asked' = Append(asked, call)
  /\ subops' = Append(subops, [code |-> call.code, arg |-> call.arg, payload |-> payload])
  /\ memory' = Append(memory, mem)
  /\ UNCHANGED <<kind, alive, results, stray, flight>>

Building(k) == kind = k /\ alive /\ worker = "idle" /\ Len(asked) < MaxCalls

\* A write without a buffer, and a read without a buffer or without bytesRead,
\* are logged and ignored: the call returns nothing and leaves no sub-op.
NullCalls == {"write_null", "read_null"}
NoSubOp == [code |-> "none", arg |-> 0, payload |-> <<>>]

Ignore(k, code) ==
  /\ Building(k)
  /\ asked' = Append(asked, PlainCall(code))
  /\ subops' = Append(subops, NoSubOp)
  /\ memory' = Append(memory, <<>>)
  /\ UNCHANGED <<kind, alive, bl, req, results, stray, flight>>

\* A data call: code, and where its bytes come from; no chain is a plain buffer.
DataCall(code, chain, len, whole, prev, back) ==
  [code |-> code, arg |-> 0, chain |-> chain, len |-> len, whole |-> whole, prev |-> prev, back |-> back]

\* Every data builder appends to the one bl of the op and hands librados a
\* copy of all of it.
AddData(call, data) ==
  /\ Building("write")
  /\ bl' = bl \o data
  /\ Add(call, bl', <<>>)
  /\ UNCHANGED req

WriteBuffer(code, len) ==
  AddData(DataCall(code, <<>>, len, FALSE, 0, 0), Buffer(Len(asked) + 1, 0, len))

\* given: the buffer is not null, the one argument that is looked at.
WriteOpWrite(len, given) == IF given THEN WriteBuffer("write", len) ELSE Ignore("write", "write_null")
WriteOpWriteFull(len) == WriteBuffer("write_full", len)
WriteOpWriteSame(len) == WriteBuffer("writesame", len)
WriteOpAppend(len) == WriteBuffer("append", len)

\* Mutant: the align buffers change places.
AlignSwapped(k, data, prev, back) == Buffer(k, 2, back) \o data \o Buffer(k, 1, prev)

\* AlignBuffer: what goes before and after the data of the SGL, if anything.
Aligned(k, data, prev, back) == Buffer(k, 1, prev) \o data \o Buffer(k, 2, back)

WriteOpWriteSGL(chain, len, prev, back, whole) ==
  LET k == Len(asked) + 1
  IN AddData(DataCall("write", chain, len, whole, prev, back),
             Aligned(k, Bytes(k, Gather(chain, len, whole)), prev, back))

WriteSGL(code, chain, len, whole) ==
  AddData(DataCall(code, chain, len, whole, 0, 0), Bytes(Len(asked) + 1, Gather(chain, len, whole)))

WriteOpWriteFullSGL(chain, len, whole) == WriteSGL("write_full", chain, len, whole)
WriteOpWriteSameSGL(chain, len, whole) == WriteSGL("writesame", chain, len, whole)
WriteOpAppendSGL(chain, len, whole) == WriteSGL("append", chain, len, whole)

\* The other builders hand their arguments to librados as they are.
PlainWrites == {"set_op_flags2", "assert_exists", "assert_version", "cmpext", "cmpxattr",
                "setxattr", "rmxattr", "create", "remove", "truncate", "zero",
                "omap_set", "omap_rm_keys", "omap_clear", "set_alloc_hint2"}

WriteOpPlain(code) ==
  /\ Building("write")
  /\ Add(PlainCall(code), <<>>, <<>>)
  /\ UNCHANGED <<bl, req>>

\* Only the writing omap_cmp does not: the map of assertions it passes is empty.
WriteOpOmapCmp ==
  /\ Building("write")
  /\ asked' = Append(asked, PlainCall("omap_cmp"))
  /\ subops' = Append(subops, [code |-> "omap_cmp", arg |-> 0, payload |-> <<>>])
  /\ memory' = Append(memory, <<>>)
  /\ UNCHANGED <<kind, alive, bl, req, results, stray, flight>>

PlainReads == {"set_op_flags2", "assert_exists", "assert_version", "cmpext", "cmpxattr",
               "omap_cmp", "stat"}

ReadOpPlain(code) ==
  /\ Building("read")
  /\ Add(PlainCall(code), <<>>, <<>>)
  /\ UNCHANGED <<bl, req>>

\* A call that has a slot of reqCtx takes it from the one before. bytesRead is
\* kept there too, but never written.
ReadBuffer(len) ==
  /\ Building("read")
  /\ Add([code |-> "read", arg |-> len, chain |-> <<>>], <<>>,
         [cell \in ToSet(EntryCells(0, 0, len)) |-> "old"])
  /\ req' = [req EXCEPT !.buffer = Len(asked')]
  /\ UNCHANGED bl

\* given: neither the buffer nor bytesRead is null.
ReadOpRead(len, given) == IF given THEN ReadBuffer(len) ELSE Ignore("read", "read_null")

ReadOpReadSGL(chain, unused, len, whole) ==
  /\ Building("read")
  /\ Add([code |-> "read", arg |-> len, chain |-> chain, unused |-> unused, whole |-> whole], <<>>,
         [cell \in Cells(chain, whole) |-> "old"])
  /\ req' = [req EXCEPT !.sgl = Len(asked')]
  /\ UNCHANGED bl

\* The new iterator stands at its end until the callback sets it to the begin.
ReadOpGetXattrs ==
  /\ Building("read")
  /\ Add(PlainCall("getxattrs"), <<>>, "end")
  /\ req' = [req EXCEPT !.xattrs = Len(asked')]
  /\ UNCHANGED bl

ReadOpCheckSum ==
  /\ Building("read")
  /\ Add(PlainCall("checksum"), <<>>, "old")
  /\ req' = [req EXCEPT !.sum = Len(asked')]
  /\ UNCHANGED bl

-----------------------------------------------------------------------------
(* The way into librados                                                    *)

content == <<kind, asked, subops, bl, req, results, memory, stray>>

\* A step that reads or writes the op or its completion.
UsesOp == dangling' = (dangling \/ ~alive)

OpInit(k) == kind = "none" /\ Fresh(k)

\* CephProxyQueueOp
QueueOp ==
  /\ kind # "none" /\ alive /\ worker = "idle" /\ asked # <<>>
  /\ worker' = "queued"
  /\ UNCHANGED <<content, alive, cb, rv, told, dangling>>

\* OpHandler without a context for the pool calls the user back itself.
NoIoCtx ==
  /\ worker = "queued"
  /\ UsesOp
  /\ worker' = "fail"
  /\ UNCHANGED <<content, alive, cb, rv, told>>

\* RadosOperationAioOperate up to aio_operate, which takes the op or not.
AioOperate(taken) ==
  /\ worker = "queued"
  /\ UsesOp
  /\ worker' = IF taken THEN "release" ELSE "fail"
  /\ cb' = IF taken THEN "flying" ELSE cb
  /\ UNCHANGED <<content, alive, rv, told>>

\* The rest of it releases the librados completion and looks at locals only.
AioReturns ==
  /\ worker = "release"
  /\ worker' = "done"
  /\ UNCHANGED <<content, alive, cb, rv, told, dangling>>

WorkerCallsBack ==
  /\ worker = "fail"
  /\ UsesOp
  /\ worker' = "done"
  /\ told' = told + 1
  /\ UNCHANGED <<content, alive, cb, rv>>

-----------------------------------------------------------------------------
(* librados and the callbacks                                               *)

Reads == {k \in DOMAIN asked : asked[k].code = "read"}
LastOf(S) == CHOOSE k \in S : \A j \in S : j <= k

\* The op has been carried out: results is the output of the last read of the
\* op, which may be short.
Completes(r, got) ==
  /\ cb = "flying"
  /\ r = 0 /\ Reads # {} => got <= asked[LastOf(Reads)].arg
  /\ r # 0 \/ Reads = {} => got = 0
  /\ UsesOp
  /\ rv' = r
  /\ results' = Buffer(IF Reads = {} THEN 0 ELSE LastOf(Reads), 0, got)
  /\ cb' = "fill"
  /\ UNCHANGED <<kind, alive, asked, subops, bl, req, memory, stray, worker, told>>

\* Mutant: a short read leaves the rest of the chain as it is.
KeepTheRest(mem, call) == mem

\* The memset of a short read: the length of every entry in use.
ZeroFilled(mem, call) ==
  [cell \in DOMAIN mem |->
     IF Len(results) # call.arg /\ cell[3] <= EntrySize(call.chain, cell[1], cell[2], FALSE) THEN "zero" ELSE mem[cell]]

\* The bytes of results go to the cells of the sequence to, in order.
Copied(mem, to) ==
  [cell \in DOMAIN mem |->
     IF \E n \in DOMAIN to : to[n] = cell THEN results[CHOOSE n \in DOMAIN to : to[n] = cell] ELSE mem[cell]]

\* Where the bytes go: a plain buffer comes before an SGL, whichever was asked
\* for last.
BufferCells == EntryCells(0, 0, Len(results))
SglCells == LET call == asked[req.sgl] IN Scatter(call.chain, call.unused, Len(results), call.whole)

Filled ==
  IF req.buffer # 0 THEN [memory EXCEPT ![req.buffer] = Copied(@, BufferCells)]
  ELSE IF req.sgl # 0 THEN [memory EXCEPT ![req.sgl] = Copied(ZeroFilled(@, asked[req.sgl]), SglCells)]
  ELSE memory

GoesAstray ==
  IF req.buffer # 0 THEN Len(results) > asked[req.buffer].arg
  ELSE req.sgl # 0 /\ Outside \in ToSet(SglCells)

\* ReadCallback up to the call of the user: the slots are served only if the
\* op has succeeded.
ReadFill ==
  /\ cb = "fill" /\ kind = "read"
  /\ UsesOp
  /\ memory' = IF rv # 0 THEN memory
               ELSE [k \in DOMAIN memory |-> IF k \in {req.xattrs, req.sum} THEN "set" ELSE Filled[k]]
  /\ stray' = (rv = 0 /\ GoesAstray)
  /\ cb' = "call"
  /\ UNCHANGED <<kind, alive, asked, subops, bl, req, results, worker, rv, told>>

\* WriteCallback takes its copy of the time stamp.
WriteStart ==
  /\ cb = "fill" /\ kind = "write"
  /\ UsesOp
  /\ cb' = "call"
  /\ UNCHANGED <<content, alive, worker, rv, told>>

CallbackCalls ==
  /\ cb = "call"
  /\ UsesOp
  /\ cb' = "end"
  /\ told' = told + 1
  /\ UNCHANGED <<content, alive, worker, rv>>

\* Mutant: the trace of the write takes the time stamp from the op.
TraceFromOp == UsesOp

\* What comes after the user's callback uses copies.
TraceFromCopies == UNCHANGED dangling

CallbackEnds ==
  /\ cb = "end"
  /\ TraceFromCopies
  /\ cb' = "done"
  /\ UNCHANGED <<content, alive, worker, rv, told>>

\* The user releases op and completion once called back, or before submitting.
OpRelease ==
  /\ alive /\ (told > 0 \/ worker = "idle")
  /\ alive' = FALSE
  /\ UNCHANGED <<content, flight>>

\* The next op, once every thread is done with this one.
Forget ==
  /\ kind # "none" /\ ~alive
  /\ worker \in {"idle", "done"} /\ cb \in {"none", "done"}
  /\ Fresh("none")

-----------------------------------------------------------------------------
\* The cells of a chain in order, entry after entry and SGL after SGL.
ChainCells(chain, whole) ==
  FlattenSeq([i \in 1..Len(chain) |-> FlattenSeq([j \in 1..EntrySum(chain, i) |->
    EntryCells(i, j, EntrySize(chain, i, j, whole))])])

\* The user passes chains that hold the length given.
Capacity(chain, whole) == Len(ChainCells(chain, whole))

WriteCalls ==
  \/ \E len \in Lens, given \in BOOLEAN : WriteOpWrite(len, given)
  \/ \E len \in Lens : WriteOpWriteFull(len) \/ WriteOpWriteSame(len) \/ WriteOpAppend(len)
  \/ \E chain \in Chains, whole \in BOOLEAN : \E len \in Lens \cap 0..Capacity(chain, whole) :
       \/ \E prev, back \in 0..1 : WriteOpWriteSGL(chain, len, prev, back, whole)
       \/ WriteOpWriteFullSGL(chain, len, whole)
       \/ WriteOpWriteSameSGL(chain, len, whole)
       \/ WriteOpAppendSGL(chain, len, whole)
  \/ \E code \in PlainWrites : WriteOpPlain(code)
  \/ WriteOpOmapCmp

ReadCalls ==
  \/ \E len \in Lens, given \in BOOLEAN : ReadOpRead(len, given)
  \/ \E chain \in Chains, whole \in BOOLEAN : \E len \in Lens \cap 0..Capacity(chain, whole), unused \in {"zero", "garbage"} :
       ReadOpReadSGL(chain, unused, len, whole)
  \/ \E code \in PlainReads : ReadOpPlain(code)
  \/ ReadOpGetXattrs \/ ReadOpCheckSum

Next ==
  \/ \E k \in {"write", "read"} : OpInit(k)
  \/ WriteCalls \/ ReadCalls
  \/ QueueOp \/ NoIoCtx \/ AioReturns \/ WorkerCallsBack
  \/ \E taken \in BOOLEAN : AioOperate(taken)
  \/ \E r \in {0, 1}, got \in UNION {0..len : len \in Lens} : Completes(r, got)
  \/ ReadFill \/ WriteStart \/ CallbackCalls \/ CallbackEnds
  \/ OpRelease \/ Forget

Spec == Init /\ [][Next]_vars

-----------------------------------------------------------------------------
\* The bytes a data call asks for, as the k-th: the align buffers around the
\* first bytes of the chain, or a plain buffer.
Intended(k, call) ==
  IF "prev" \notin DOMAIN call THEN <<>>
  ELSE Buffer(k, 1, call.prev)
       \o (IF call.chain = <<>> THEN Buffer(k, 0, call.len)
           ELSE Bytes(k, SubSeq(ChainCells(call.chain, call.whole), 1, call.len)))
       \o Buffer(k, 2, call.back)

\* The sub-op a call is to leave, but for its payload: none if it is ignored;
\* the comparison of a writing omap_cmp compares nothing.
Matches(k, call, sub) ==
  IF call.code \in NullCalls THEN sub = NoSubOp
  ELSE /\ sub.code = call.code
       /\ sub.arg = IF k = "write" /\ call.code = "omap_cmp" THEN 0 ELSE call.arg

\* librados gets the sub-ops of exactly the calls that were not ignored, in
\* that order and with their arguments (but see omap_cmp). A data sub-op
\* carries the bytes of the user's buffers in order, after those of every data
\* call before it that was not ignored: only the first is exact.
SubOpsFaithful ==
  /\ Len(subops) = Len(asked)
  /\ \A k \in DOMAIN asked :
       /\ Matches(kind, asked[k], subops[k])
       /\ "prev" \in DOMAIN asked[k] =>
            subops[k].payload = FlattenSeq([n \in 1..k |-> Intended(n, asked[n])])

\* What a read of n bytes leaves in the destination of call k: the bytes in
\* order; after a short read zeros in the rest of every entry.
Delivered(k) ==
  LET call == asked[k]
      order == IF call.chain = <<>> THEN EntryCells(0, 0, call.arg) ELSE ChainCells(call.chain, call.whole)
      place(cell) == CHOOSE n \in DOMAIN order : order[n] = cell
      short == Len(results) # call.arg
  IN [cell \in DOMAIN memory[k] |->
        IF place(cell) <= Len(results) THEN results[place(cell)]
        ELSE IF short /\ call.chain # <<>> /\ cell[3] <= EntrySize(call.chain, cell[1], cell[2], FALSE) THEN "zero"
        ELSE "old"]

\* When the user is called back, a read that was the op's only one has left
\* exactly its bytes, unless they went astray; with several reads, and after a
\* failed op, every destination but the one served last is untouched.
ReadExact ==
  kind = "read" /\ cb \in {"call", "end", "done"} =>
    \A k \in Reads :
      LET served == IF req.buffer # 0 THEN req.buffer ELSE req.sgl
      IN IF rv # 0 \/ k # served THEN \A cell \in DOMAIN memory[k] : memory[k][cell] = "old"
         ELSE Reads = {k} /\ ~stray => memory[k] = Delivered(k)

\* ReadCallback writes outside the user's memory only if a plain buffer had to
\* take a longer read that was asked for after it, or if an SGL before the
\* last is not full (and is of whole pages or has garbage in its unused
\* entries).
StrayExplained ==
  stray =>
    \/ \E k, n \in Reads : k < n /\ asked[k].chain = <<>> /\ asked[n].arg > asked[k].arg
    \/ LET call == asked[req.sgl]
       IN req.sgl # 0 /\ (call.whole \/ call.unused = "garbage")
          /\ \E i \in 1..(Len(call.chain) - 1) : EntrySum(call.chain, i) < PerSgl

\* Nothing of the worker or of the callbacks touches the op after the user's
\* callback, in which the user may release it, though the worker may still be
\* in RadosOperationAioOperate when librados calls back.
NoUseAfterRelease == ~dangling
=============================================================================
