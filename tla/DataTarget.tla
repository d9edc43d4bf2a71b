----------------------------- MODULE DataTarget -----------------------------
(***************************************************************************)
(* DACTargetProvider: what the DAC asks of the process it looks into.  It  *)
(* reads, writes, allocates and frees the memory of the very process it    *)
(* runs in, while the other threads of that process change and release it. *)
(*                                                                         *)
(* memcpy moves the bytes in an order of its own, and stops at the first   *)
(* byte that cannot be accessed.  The count is a place in memory too.      *)
(***************************************************************************)
EXTENDS Integers

CONSTANTS
  Addresses,  \* the memory of the process that is looked at
  MaxLength,  \* bytes in one request; a bound
  Values,
  MaxChanges  \* changes by other threads; a bound

ASSUME AddressesAssumption == Addresses \subseteq Nat
ASSUME BoundsAssumption == MaxLength \in Nat /\ MaxChanges \in Nat

(* A guarded page raises another exception than an access violation. *)
Accesses == {"none", "guard", "read", "write"}

Readable(access) == access \in {"read", "write"}

Moves == {"read", "write"}
Descriptions == {"machine", "pointer", "base"}
Requests == Moves \cup Descriptions \cup {"alloc", "free", "context", "tls", "control"}

VARIABLES
  mem, access,  \* what is at each address, and what may be done there
  op,           \* the request in progress or the last one, "idle" at first
  pc,
  first, length,\* the bytes asked for
  buffer,       \* of the DAC, for the bytes from first on
  todo,         \* the offsets memcpy has left
  count,        \* bytesRead or bytesWritten, NotSet before it is set
  hr,           \* the answer
  (* history *)
  held,         \* the values each address has had since the request came
  changes

request == <<op, first, length>>
memory == <<mem, access, held, changes>>
vars == <<memory, request, pc, buffer, todo, count, hr>>

Offsets(n) == 0..(n - 1)

InRange(n) == {a \in Addresses : Offsets(n) \subseteq {b - a : b \in Addresses}}

NotSet == -1

NoBuffer == [i \in {} |-> 0]

Init ==
  /\ mem \in [Addresses -> Values]
  /\ access \in [Addresses -> Accesses]
  /\ op = "idle"
  /\ pc = "idle"
  /\ first = 0
  /\ length = 0
  /\ buffer = NoBuffer
  /\ todo = {}
  /\ count = NotSet
  /\ hr = "none"
  /\ held = [a \in Addresses |-> {}]
  /\ changes = 0

-----------------------------------------------------------------------------
(* The requests. *)

Request(kind, a, n, b, entry) ==
  /\ pc = "idle"
  /\ op' = kind /\ first' = a /\ length' = n
  /\ buffer' = b
  /\ todo' = Offsets(n)
  /\ count' = NotSet
  /\ hr' = "none"
  /\ held' = [x \in Addresses |-> {mem[x]}]
  /\ pc' = entry
  /\ UNCHANGED <<mem, access, changes>>

ReadVirtual(a, n) == \E b \in [Offsets(n) -> Values] : Request("read", a, n, b, "copying")

(* Mutation: the count is set when all has been written. *)
WriteVirtualCountingLast(a, n) ==
  \E b \in [Offsets(n) -> Values] : Request("write", a, n, b, "copying")

WriteVirtual(a, n) ==
  \E b \in [Offsets(n) -> Values] : Request("write", a, n, b, "counting")

(* A request that moves no bytes is answered as it comes. *)
AnswerAtOnce(kind, answer) ==
  /\ pc = "idle"
  /\ op' = kind /\ length' = 0
  /\ buffer' = NoBuffer
  /\ todo' = {}
  /\ count' = NotSet
  /\ hr' = answer
  /\ UNCHANGED <<first, pc>>

(* No place that an answer goes to may be missing, nor the buffer. *)
Refuse(kind) == AnswerAtOnce(kind, "E_POINTER") /\ UNCHANGED memory

(* VirtualAlloc and VirtualFree give their protection to whole pages, or do
   nothing and leave an error.  What memory without access holds is what is
   found in it when there is access again. *)
SetPages(area, protection) ==
  access' = [a \in Addresses |-> IF a \in area THEN protection ELSE access[a]]

AllocVirtual(area, protection) ==
  /\ AnswerAtOnce("alloc", "S_OK")
  /\ SetPages(area, protection)
  /\ UNCHANGED <<mem, held, changes>>

FreeVirtual(area) ==
  /\ AnswerAtOnce("free", "S_OK")
  /\ SetPages(area, "none")
  /\ UNCHANGED <<mem, held, changes>>

SystemFails(kind) == AnswerAtOnce(kind, "error") /\ UNCHANGED memory

(* The machine, the size of a pointer and the base of a module. *)
Describe(kind) == AnswerAtOnce(kind, "S_OK") /\ UNCHANGED memory

(* The context of the exception, whichever thread is asked about, for a
   buffer of the size of a context. *)
GetThreadContext ==
  /\ \E answer \in {"S_OK", "E_INVALIDARG"} : AnswerAtOnce("context", answer)
  /\ UNCHANGED memory

(* Storage local to threads, and which thread is the current one. *)
NoThreadData == AnswerAtOnce("tls", "E_NOTIMPL") /\ UNCHANGED memory

(* The context is not set, and there are no services beyond these. *)
NoControl == AnswerAtOnce("control", "E_NOTIMPL") /\ UNCHANGED memory

Answer(answer) ==
  /\ pc' = "idle"
  /\ hr' = answer
  /\ UNCHANGED request

CopyByte(i) ==
  /\ pc = "copying" /\ i \in todo
  /\ todo' = todo \ {i}
  /\ IF op = "read"
     THEN /\ Readable(access[first + i])
          /\ buffer' = [buffer EXCEPT ![i] = mem[first + i]]
          /\ UNCHANGED <<mem, held>>
     ELSE /\ access[first + i] = "write"
          /\ mem' = [mem EXCEPT ![first + i] = buffer[i]]
          /\ held' = [held EXCEPT ![first + i] = @ \cup {buffer[i]}]
          /\ UNCHANGED buffer
  /\ UNCHANGED <<access, request, pc, count, hr, changes>>

(* Mutation: the rest is skipped and the request succeeds. *)
SkipViolation(i) ==
  /\ pc = "copying" /\ i \in todo
  /\ \/ access[first + i] = "none"
     \/ access[first + i] = "read" /\ op = "write"
  /\ todo' = {}
  /\ UNCHANGED <<memory, request, pc, buffer, count, hr>>

AccessViolation(i) ==
  /\ pc = "copying" /\ i \in todo
  /\ \/ access[first + i] = "none"
     \/ access[first + i] = "read" /\ op = "write"
  /\ Answer("E_ACCESSDENIED")
  /\ UNCHANGED <<memory, buffer, todo, count>>

(* The filter takes access violations only: this one goes on to the DAC. *)
GuardViolation(i) ==
  /\ pc = "copying" /\ i \in todo
  /\ access[first + i] = "guard"
  /\ Answer("exception")
  /\ UNCHANGED <<memory, buffer, todo, count>>

Copied ==
  /\ pc = "copying" /\ todo = {}
  /\ IF count # NotSet
     THEN Answer("S_OK")
     ELSE pc' = "counting" /\ UNCHANGED <<request, hr>>
  /\ UNCHANGED <<memory, buffer, todo, count>>

(* Mutation: the byte after the last is counted. *)
SetCountOneMore ==
  /\ pc = "counting"
  /\ count' = length + 1
  /\ IF todo = {}
     THEN Answer("S_OK")
     ELSE pc' = "copying" /\ UNCHANGED <<request, hr>>
  /\ UNCHANGED <<memory, buffer, todo>>

SetCount ==
  /\ pc = "counting"
  /\ count' = length
  /\ IF todo = {}
     THEN Answer("S_OK")
     ELSE pc' = "copying" /\ UNCHANGED <<request, hr>>
  /\ UNCHANGED <<memory, buffer, todo>>

(* The place for the count cannot be written. *)
CountViolation ==
  /\ pc = "counting"
  /\ Answer("E_ACCESSDENIED")
  /\ UNCHANGED <<memory, buffer, todo, count>>

-----------------------------------------------------------------------------
(* Another thread stores, or changes what may be done at an address. *)

Store(a, v) ==
  /\ changes < MaxChanges
  /\ access[a] = "write"
  /\ mem' = [mem EXCEPT ![a] = v]
  /\ held' = [held EXCEPT ![a] = @ \cup {v}]
  /\ changes' = changes + 1
  /\ UNCHANGED <<access, request, pc, buffer, todo, count, hr>>

Protect(a, p) ==
  /\ changes < MaxChanges
  /\ access' = [access EXCEPT ![a] = p]
  /\ changes' = changes + 1
  /\ UNCHANGED <<mem, held, request, pc, buffer, todo, count, hr>>

Provider ==
  \/ \E n \in 0..MaxLength : \E a \in InRange(n) : ReadVirtual(a, n) \/ WriteVirtual(a, n)
  \/ \E area \in SUBSET Addresses :
       \/ \E protection \in Accesses : AllocVirtual(area, protection)
       \/ FreeVirtual(area)
  \/ \E kind \in Moves \cup Descriptions \cup {"alloc"} : Refuse(kind)
  \/ \E kind \in {"alloc", "free", "base"} : SystemFails(kind)
  \/ \E kind \in Descriptions : Describe(kind)
  \/ GetThreadContext \/ NoThreadData \/ NoControl
  \/ \E i \in todo : CopyByte(i) \/ AccessViolation(i) \/ GuardViolation(i)
  \/ Copied \/ SetCount \/ CountViolation

Others ==
  \E a \in Addresses :
    (\E v \in Values : Store(a, v)) \/ (\E p \in Accesses : Protect(a, p))

Next == Provider \/ Others

Spec == Init /\ [][Next]_vars

-----------------------------------------------------------------------------
(* Properties. *)

(* Every variable has its type; a request stays inside the memory looked at. *)
TypeOK ==
  /\ mem \in [Addresses -> Values] /\ access \in [Addresses -> Accesses]
  /\ held \in [Addresses -> SUBSET Values]
  /\ op \in {"idle"} \cup Requests
  /\ pc \in {"idle", "copying", "counting"}
  /\ length \in 0..MaxLength
  /\ \A i \in Offsets(length) : first + i \in Addresses
  /\ buffer \in [Offsets(length) -> Values]
  /\ todo \subseteq Offsets(length)
  /\ count \in {NotSet} \cup 0..MaxLength
  /\ hr \in {"none", "S_OK", "E_ACCESSDENIED", "E_POINTER", "E_INVALIDARG",
            "E_NOTIMPL", "error", "exception"}
  /\ changes \in 0..MaxChanges

(* ReadVirtual and WriteVirtual answer S_OK for all the bytes asked for and
   their count, and for nothing less: whatever other threads and requests
   before it have done, each byte of the buffer is one the memory has had at
   its address since the request came; and a request that has moved some of its
   bytes and then faults is refused.  The interface has it otherwise
   (clrdata.idl 87): "If any bytes can be processed the call is considered
   successful." *)
AllOrNothing ==
  op \in Moves /\ pc = "idle" =>
    /\ hr = "S_OK" <=> todo = {} /\ count = length
    /\ hr = "S_OK" => \A i \in Offsets(length) : buffer[i] \in held[first + i]

(* "After we do the actual write, writing to bytesWritten is not allow to
   fail": a write that is refused for its count has written nothing, and one
   that has written anything has been counted. *)
CountComesFirst ==
  op = "write" /\ count = NotSet => todo = Offsets(length)
=============================================================================
