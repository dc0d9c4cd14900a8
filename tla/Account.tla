------------------------------- MODULE Account ------------------------------
(***************************************************************************)
(* What settlement and compensation promise to the books: an invoice is    *)
(* paid by one posting at a time, a posting is never changed or removed,   *)
(* and it ceases to count only by a reversal that makes its invoice unpaid *)
(* in the same step.                                                       *)
(***************************************************************************)
CONSTANT Intent

VARIABLES
  posted,   \* settlement postings, [id, intent]
  voided,   \* identifiers of reversed postings
  paid      \* the intents that read as paid

books == <<posted, voided, paid>>

InForce == {p \in posted : p.id \notin voided}

Open == posted = {} /\ voided = {} /\ paid = {}

(* A settlement: a posting with a new identifier, for an unpaid intent. *)
Post(p) ==
  /\ p.intent \in Intent \ paid
  /\ \A q \in posted : q.id # p.id
  /\ posted' = posted \cup {p}
  /\ paid' = paid \cup {p.intent}
  /\ UNCHANGED voided

(* A reorganisation: all postings in force for some paid intents. *)
Void(I) ==
  /\ I \subseteq paid
  /\ voided' = voided \cup {p.id : p \in {p \in InForce : p.intent \in I}}
  /\ paid' = paid \ I
  /\ UNCHANGED posted

Step == (\E p \in posted' : Post(p)) \/ (\E I \in SUBSET paid : Void(I))

Spec == Open /\ [][Step]_books
=============================================================================
