----------------------------- MODULE ValueWalk -----------------------------
(***************************************************************************)
(* How exception_dumper dumps the arguments of one frame: the loop of      *)
(* dump_frame over the arguments, dump_method_argument with its handler of *)
(* failures, and the recursion of dump_object over references and arrays,  *)
(* as a machine with an explicit stack of activations.                     *)
(*                                                                         *)
(* The managed heap is walked while the other threads of the process run,  *)
(* so an array may be stored to between any two steps.  Its length, and    *)
(* what kind of value an object is, do not change.                         *)
(*                                                                         *)
(* What is dumped of a value is the sequence of its parts, a whole before  *)
(* what it holds; an array says how many values follow.                    *)
(***************************************************************************)
EXTENDS Integers, Sequences

CONSTANTS
  Objects,
  Heaps,      \* the heaps to begin with
  Signatures, \* the argument lists to begin with
  ULONG_MAX,  \* the largest size of a raw value that is copied
  MaxStack,   \* activations there is room for on the thread's stack
  MaxStores   \* stores by other threads; a bound

Kinds == {"null", "reference", "array", "matrix", "string", "raw"}

Cells == [kind : Kinds, items : Seq(Objects), size : Nat]

(* A reference has one referent; a matrix is any array of several dimensions
   or with another lower bound than 0. *)
ASSUME HeapsAssumption ==
  \A h \in Heaps : /\ h \in [Objects -> Cells]
                   /\ \A o \in Objects : h[o].kind = "reference" => Len(h[o].items) = 1
ASSUME SignaturesAssumption == Signatures \subseteq Seq(Objects)
ASSUME BoundsAssumption ==
  ULONG_MAX \in Nat /\ MaxStack \in Nat \ {0} /\ MaxStores \in Nat

VARIABLES
  heap,
  args,    \* the arguments of the frame
  pc,      \* "frame" between arguments, "value" inside dump_object
  stack,   \* the activations of dump_object, and the element each has reached
  part,    \* what has been dumped of the current argument
  values,  \* the values of the arguments dumped so far
  (* history *)
  failed,  \* the arguments that could not be dumped
  lostIn,  \* where the failure was that lost the frame
  stores   \* stores by other threads

walkVars == <<pc, stack, part, values, failed, lostIn>>
vars == <<heap, args, walkVars, stores>>

Parts == [is : {"null", "array", "string", "raw", "unknown"}, size : Nat]

UnknownValue == <<[is |-> "unknown", size |-> 0]>>

Init ==
  /\ heap \in Heaps
  /\ args \in Signatures
  /\ pc = "frame"
  /\ stack = <<>>
  /\ part = <<>>
  /\ values = <<>>
  /\ failed = {}
  /\ lostIn = "none"
  /\ stores = 0

-----------------------------------------------------------------------------
(* The loop over the arguments. *)

Argument == Len(values) + 1

Activation(o) == [of |-> o, reached |-> 0]

BeginArgument ==
  /\ pc = "frame" /\ Argument <= Len(args)
  /\ pc' = "value"
  /\ stack' = <<Activation(args[Argument])>>
  /\ part' = <<>>
  /\ UNCHANGED <<heap, args, values, failed, lostIn, stores>>

FrameDumped ==
  /\ pc = "frame" /\ Argument > Len(args)
  /\ pc' = "dumped"
  /\ UNCHANGED <<heap, args, stack, part, values, failed, lostIn, stores>>

(* The method, its name, the count of arguments, the name, flags or type of
   one: a failure outside dump_object is not handled here. *)
FrameFails ==
  /\ pc = "frame"
  /\ pc' = "failed"
  /\ lostIn' = "frame"
  /\ UNCHANGED <<heap, args, stack, part, values, failed, stores>>

-----------------------------------------------------------------------------
(* The recursion over a value. *)

top == stack[Len(stack)]
cell == heap[top.of]
below == SubSeq(stack, 1, Len(stack) - 1)

(* dump_object has come to a value of this kind. *)
At(kind) == pc = "value" /\ cell.kind = kind /\ top.reached = 0

Emit(is, size) == part' = Append(part, [is |-> is, size |-> size])

(* The activation on top returns; the last one ends the argument. *)
Return(dumped) ==
  /\ stack' = below
  /\ IF below = <<>>
     THEN pc' = "frame" /\ values' = Append(values, dumped)
     ELSE UNCHANGED <<pc, values>>
  /\ UNCHANGED <<heap, args, failed, lostIn, stores>>

(* dump_object is called for the next thing the value on top holds. *)
Call ==
  /\ Len(stack) < MaxStack
  /\ stack' = Append([stack EXCEPT ![Len(stack)].reached = @ + 1],
                     Activation(cell.items[top.reached + 1]))
  /\ UNCHANGED <<heap, args, pc, part, values, failed, lostIn, stores>>

(* The DAC has no data for a null. *)
dump_null ==
  /\ At("null")
  /\ Emit("null", 0)
  /\ Return(part')

dump_reference == At("reference") /\ Call

dump_string ==
  /\ At("string")
  /\ Emit("string", 0)
  /\ Return(part')

(* Mutation: a value of any size is copied. *)
dump_raw_of_any_size ==
  /\ At("raw")
  /\ Emit("raw", cell.size)
  /\ Return(part')

(* Of a value that is too large nothing is copied. *)
dump_object_raw ==
  /\ At("raw")
  /\ Emit("raw", IF cell.size > ULONG_MAX THEN 0 ELSE cell.size)
  /\ Return(part')

(* An array of another shape is dumped as one without elements. *)
dump_matrix ==
  /\ At("matrix")
  /\ Emit("array", 0)
  /\ Return(part')

dump_empty_array ==
  /\ At("array") /\ cell.items = <<>>
  /\ Emit("array", 0)
  /\ Return(part')

(* The first element, which comes with the array. *)
dump_array ==
  /\ At("array") /\ cell.items # <<>>
  /\ Len(stack) < MaxStack
  /\ Emit("array", Len(cell.items))
  /\ stack' = Append([stack EXCEPT ![Len(stack)].reached = 1], Activation(cell.items[1]))
  /\ UNCHANGED <<heap, args, pc, values, failed, lostIn, stores>>

dump_element ==
  /\ pc = "value" /\ cell.kind = "array"
  /\ top.reached \in 1..(Len(cell.items) - 1)
  /\ Call

(* Mutation: the array ends one element early. *)
EndHolderEarly ==
  /\ pc = "value" /\ cell.kind \in {"reference", "array"}
  /\ top.reached > 0 /\ top.reached + 1 >= Len(cell.items)
  /\ UNCHANGED part
  /\ Return(part)

(* What was held has been dumped. *)
EndHolder ==
  /\ pc = "value" /\ cell.kind \in {"reference", "array"}
  /\ top.reached > 0 /\ top.reached = Len(cell.items)
  /\ UNCHANGED part
  /\ Return(part)

-----------------------------------------------------------------------------
(* Failures inside dump_object. *)

(* Mutation: the argument is tried again. *)
ValueFailsAndRetries ==
  /\ pc = "value"
  /\ pc' = "frame"
  /\ stack' = <<>>
  /\ part' = <<>>
  /\ failed' = failed \cup {Argument}
  /\ UNCHANGED <<heap, args, values, lostIn, stores>>

(* Mutation: the handler does not leave the value. *)
ValueFailsInPlace ==
  /\ pc = "value"
  /\ stack' = <<>>
  /\ values' = Append(values, UnknownValue)
  /\ failed' = failed \cup {Argument}
  /\ UNCHANGED <<heap, args, pc, part, lostIn, stores>>

(* A call of the DAC fails, or memory for a COM object or a SAFEARRAY: all of
   the argument becomes one UnknownValue, and the loop goes on. *)
ValueFails ==
  /\ pc = "value"
  /\ pc' = "frame"
  /\ stack' = <<>>
  /\ values' = Append(values, UnknownValue)
  /\ failed' = failed \cup {Argument}
  /\ UNCHANGED <<heap, args, part, lostIn, stores>>

LoseFrame ==
  /\ pc' = "failed"
  /\ lostIn' = "value"
  /\ UNCHANGED <<heap, args, stack, part, values, failed, stores>>

(* There is no memory for the characters, and the handler in
   dump_method_argument does not know bad_alloc. *)
StringFails == At("string") /\ LoseFrame

(* Nor does it know a stack overflow. *)
Overflow ==
  /\ pc = "value" /\ cell.kind \in {"reference", "array"}
  /\ top.reached < Len(cell.items)
  /\ Len(stack) = MaxStack
  /\ LoseFrame

-----------------------------------------------------------------------------
(* Another thread stores to an element of an array. *)
Store(o, i, p) ==
  /\ stores < MaxStores
  /\ pc \in {"frame", "value"}
  /\ heap[o].kind = "array" /\ i \in 1..Len(heap[o].items)
  /\ p # heap[o].items[i]
  /\ heap' = [heap EXCEPT ![o].items[i] = p]
  /\ stores' = stores + 1
  /\ UNCHANGED <<args, walkVars>>

Stores == \E o, p \in Objects : \E i \in 1..Len(heap[o].items) : Store(o, i, p)

dump_object ==
  \/ dump_null \/ dump_reference \/ dump_string \/ dump_object_raw
  \/ dump_matrix \/ dump_empty_array \/ dump_array \/ dump_element \/ EndHolder
  \/ ValueFails \/ StringFails \/ Overflow

dump_frame == BeginArgument \/ FrameDumped \/ FrameFails \/ dump_object

Next == dump_frame \/ Stores

Spec == Init /\ [][Next]_vars

(* The thread that raised the exception runs on. *)
FairSpec == Spec /\ WF_vars(dump_frame)

-----------------------------------------------------------------------------
(* Reference definitions. *)

Held(h, o) == IF h[o].kind \in {"reference", "array"} THEN h[o].items ELSE <<>>

(* The part that stands for the object itself. *)
Own(h, o) ==
  LET c == h[o]
      one(is, size) == <<[is |-> is, size |-> size]>>
  IN  CASE c.kind = "reference" -> <<>>
        [] c.kind \in {"null", "string"} -> one(c.kind, 0)
        [] c.kind = "matrix" -> one("array", 0)
        [] c.kind = "array" -> one("array", Len(c.items))
        [] c.kind = "raw" -> one("raw", IF c.size > ULONG_MAX THEN 0 ELSE c.size)

(* The parts of an object up to each of the things it holds, where inner has
   the parts of those. *)
UpTo(h, o, inner) ==
  LET held[i \in 0..Len(Held(h, o))] ==
        IF i = 0 THEN Own(h, o) ELSE held[i - 1] \o inner[Held(h, o)[i]]
  IN  held

(* The parts of an object of a heap no deeper than n, by recursion on n. *)
Images(h) ==
  LET image[n \in 0..MaxStack] ==
        IF n = 0 THEN [o \in Objects |-> <<>>]
        ELSE [o \in Objects |-> UpTo(h, o, image[n - 1])[Len(Held(h, o))]]
  IN  image

Image(h) == Images(h)[MaxStack]

(* How many values are missing after the first n parts, of a sequence that
   should be one value. *)
Missing(parts) ==
  LET missing[n \in 0..Len(parts)] ==
        IF n = 0 THEN 1
        ELSE missing[n - 1] - 1 + (IF parts[n].is = "array" THEN parts[n].size ELSE 0)
  IN  missing

-----------------------------------------------------------------------------
(* Properties. *)

(* Every variable has its type; the stack is never empty inside dump_object,
   nor deeper than there is room for. *)
TypeOK ==
  /\ heap \in [Objects -> Cells]
  /\ args \in Seq(Objects)
  /\ pc \in {"frame", "value", "dumped", "failed"}
  /\ stack \in Seq([of : Objects, reached : Nat])
  /\ pc = "value" => Len(stack) \in 1..MaxStack
  /\ part \in Seq(Parts)
  /\ values \in Seq(Seq(Parts))
  /\ failed \in SUBSET Nat
  /\ lostIn \in {"none", "frame", "value"}
  /\ stores \in 0..MaxStores

(* Whatever other threads store and whichever calls fail, each value the
   application gets is whole: every array in it is followed by as many values
   as it announces, and then nothing. *)
ValuesWhole ==
  \A k \in 1..Len(values) :
    LET missing == Missing(values[k])
    IN  \A n \in 0..Len(values[k]) : missing[n] = 0 <=> n = Len(values[k])

(* With no store meanwhile, the value of every argument that did not fail is
   the value in the heap: shared objects are dumped each time they are met,
   and the failure of one argument does not touch the others.  A dumped frame
   has them all. *)
ValuesExact ==
  /\ stores = 0 =>
       \A k \in 1..Len(values) :
         values[k] = IF k \in failed THEN UnknownValue ELSE Image(heap)[args[k]]
  /\ pc = "dumped" => Len(values) = Len(args)

(* The dump of a frame ends, also when an array holds itself. *)
DumpEnds == <>(pc \in {"dumped", "failed"})

(* UnknownValue "represents the object that fail to dump": what goes wrong
   inside one value does not lose the frame. *)
FailureStaysInValue == lostIn # "value"
=============================================================================
