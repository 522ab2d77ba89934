-------------------------- MODULE CallbackRegistry --------------------------
(***************************************************************************)
(* One reader in the hands of its clients: the decoder between callbacks,  *)
(* and a decode callback while CallbackRegistry::call (Runtime.cpp) runs   *)
(* it.  A client may call any public method of the reader with any         *)
(* argument, in any order; a method that throws changes nothing.           *)
(*                                                                         *)
(* call() keeps a copy of the reader, runs the callback, and puts the copy *)
(* back when the callback returns false or throws.  restore() may itself   *)
(* throw: then the exception leaves call(), and the reader stays wherever  *)
(* the callback left it.                                                   *)
(***************************************************************************)
EXTENDS Reader

CONSTANTS
    Sizes,       \* byte counts, positions and alignments clients pass
    Widths,      \* bit widths clients pass
    Orders,      \* byte orders clients set
    Handed,      \* reader states clients pass to restore
    MaxDepth     \* bound of the model: limits pushed at one time

ASSUME ArgumentAssumption == /\ Sizes \subseteq Nat
                             /\ Widths \subseteq Nat
                             /\ Orders \subseteq Endian
                             /\ Handed \subseteq State

VARIABLES
    rd,          \* the reader
    running,     \* a decode callback is on the stack
    entry,       \* `saved`: the reader as the last call found it
    kept,        \* ghost: the running callback has popped no limit it found
                 \* and restored no state
    result       \* how the last call ended

vars == <<rd, running, entry, kept, result>>

Init == /\ rd = New
        /\ running = FALSE
        /\ entry = New
        /\ kept = TRUE
        /\ result = "none"

-----------------------------------------------------------------------------
\* The methods, called by whoever holds the reader.

Moves(next) == /\ rd' = next
               /\ UNCHANGED <<running, entry, kept, result>>

DoSeek == \E p \in Sizes : CanSeek(rd, p) /\ Moves(Seek(rd, p))

DoSeekRoot == \E p \in Sizes : CanSeekRoot(rd, p) /\ Moves(Seek(rd, p))

DoAlign == \E a \in Sizes : CanAlign(rd, a) /\ Moves(Align(rd, a))

DoUint == \E n \in Sizes : CanUint(rd, n) /\ Moves(Take(rd, n))

DoBytes == \E n \in Sizes : CanBytes(rd, n) /\ Moves(Take(rd, n))

DoBeginBits == \E w \in Widths : CanBeginBits(rd, w) /\ Moves(BeginBits(rd, w))

DoBits == \E w \in Widths : CanBits(rd, w) /\ Moves(Bits(rd, w))

DoEndBits == CanEndBits(rd) /\ Moves(EndBits(rd))

DoSetEndian == \E e \in Orders : Moves(SetEndian(rd, e))

DoPushLimit == \E n \in Sizes : /\ Len(rd.limits) < MaxDepth
                                /\ CanPushLimit(rd, n)
                                /\ Moves(PushLimit(rd, n))

DoPushLimitEnd == \E end \in Sizes : /\ Len(rd.limits) < MaxDepth
                                     /\ CanPushLimitEnd(rd, end)
                                     /\ Moves(PushLimitEnd(rd, end))

DoPopLimit == /\ CanPopLimit(rd)
              /\ rd' = PopLimit(rd)
              /\ kept' = (kept /\ Len(rd.limits) > Len(entry.limits))
              /\ UNCHANGED <<running, entry, result>>

\* A client hands restore() a state() it has kept, or one it made itself: the
\* fields of Reader::State are public, so Handed may hold any state at all.
DoRestore == \E s \in Handed :
                /\ Restorable(s)
                /\ rd' = s
                /\ kept' = FALSE
                /\ UNCHANGED <<running, entry, result>>

Method == \/ DoSeek \/ DoSeekRoot \/ DoAlign \/ DoUint \/ DoBytes
          \/ DoBeginBits \/ DoBits \/ DoEndBits \/ DoSetEndian
          \/ DoPushLimit \/ DoPushLimitEnd \/ DoPopLimit
          \/ DoRestore

-----------------------------------------------------------------------------
\* CallbackRegistry::call on a registered callback.

Call == /\ ~running
        /\ running' = TRUE
        /\ entry' = rd
        /\ kept' = TRUE
        /\ result' = "none"
        /\ UNCHANGED rd

\* The callback returns true: what it did to the reader stands.
Succeed == /\ running
           /\ running' = FALSE
           /\ result' = "success"
           /\ UNCHANGED <<rd, entry, kept>>

\* The callback returns false or throws, and r.restore(saved) returns.
Fail == /\ running
        /\ Restorable(entry)
        /\ running' = FALSE
        /\ rd' = entry
        /\ result' = "failure"
        /\ UNCHANGED <<entry, kept>>

\* The callback returns false or throws, and r.restore(saved) throws.
Escape == /\ running
          /\ ~Restorable(entry)
          /\ running' = FALSE
          /\ result' = "escaped"
          /\ UNCHANGED <<rd, entry, kept>>

Next == Method \/ Call \/ Succeed \/ Fail \/ Escape

Spec == Init /\ [][Next]_vars

-----------------------------------------------------------------------------
TypeOK == /\ rd \in State
          /\ entry \in State
           /\ running \in BOOLEAN
          /\ kept \in BOOLEAN
          /\ result \in {"none", "success", "failure", "escaped"}

\* Whatever a callback does with the reader it is given, including restoring
\* states of its own making, the cursor stays inside the active limit, the
\* limits nest and the outermost is the input: no method can index outside d_.
Bounded == Valid(rd)

\* A callback that pops only limits it pushed, and restores no state, cannot
\* see past the block it was called in: the limits it found are still there,
\* under its own, and it is back at the same limit whenever it is as deep as
\* it was called.
Confined == running /\ kept =>
                /\ IsPrefix(entry.limits, rd.limits)
                /\ rd.limit <= entry.limit
                /\ Len(rd.limits) = Len(entry.limits) => rd.limit = entry.limit

\* The rollback of a failed callback can throw only for a call made under two
\* limits or more; at the root, or directly inside one block, it succeeds.
EscapesOnlyNested == result = "escaped" => Len(entry.limits) >= 2
=============================================================================
