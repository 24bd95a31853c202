----------------------------- MODULE Structured -----------------------------
(***************************************************************************)
(* What a program of statements, returns, ifs and fors means: the abstract *)
(* specification of the code that src/core/AST.cpp generates for a         *)
(* function.  A program is a sequence of trees,                            *)
(*   [kind |-> "work" or "return", id |-> n],                              *)
(*   [kind |-> "if", id |-> n, then |-> program, else |-> program],        *)
(*   [kind |-> "for", id |-> n, body |-> program].                         *)
(* Running it is a sequence of events: a statement is done, a condition is *)
(* found true or false.  todo is what is left to do, trees and the parts   *)
(* "test" and "step" of a loop that is running.                            *)
(***************************************************************************)
EXTENDS Integers, Sequences

VARIABLES program,      \* as it is written, then fixed
          todo          \* Idle, what is left of the run, Over or Stuck

Idle  == << [kind |-> "idle", id |-> 0] >>
Over  == << [kind |-> "over", id |-> 0] >>
Stuck == << [kind |-> "stuck", id |-> 0] >>

svars == <<program, todo>>

Done(role, id) == [event |-> role, id |-> id, holds |-> TRUE]
Tested(id, holds) == [event |-> "test", id |-> id, holds |-> holds]

Part(t, kind) == [kind |-> kind, id |-> t.id, body |-> t.body]

(* What is left of t \o rest after event e, or Stuck if t wants another. *)
After(t, rest, e) ==
  CASE t.kind = "work" /\ e = Done("work", t.id) -> rest
    [] t.kind = "return" /\ e = Done("work", t.id) -> <<>>
    [] t.kind = "if" /\ e = Tested(t.id, e.holds) ->
         (IF e.holds THEN t.then ELSE t.else) \o rest
    [] t.kind = "for" /\ e = Done("init", t.id) -> <<Part(t, "test")>> \o rest
    [] t.kind = "test" /\ e = Tested(t.id, e.holds) ->
         IF e.holds THEN t.body \o <<Part(t, "step")>> \o rest ELSE rest
    [] t.kind = "step" /\ e = Done("step", t.id) -> <<Part(t, "test")>> \o rest
    [] OTHER -> Stuck

Running == todo \notin {Idle, Over, Stuck}

(* Advance(todo, e) follows a run from outside, event by event. *)
Advance(left, e) ==
  IF left = <<>> THEN Stuck ELSE After(Head(left), Tail(left), e)

SInit == program = <<>> /\ todo = Idle

(* The program is being written; it is run; a statement or a condition is  *)
(* next; nothing is left to do.                                            *)
Write == todo = Idle /\ UNCHANGED todo
Start == todo = Idle /\ todo' = program /\ UNCHANGED program
Perform ==
  /\ Running
  /\ todo # <<>>
  /\ todo' # Stuck
  /\ \E role \in {"work", "init", "step", "test"}, holds \in BOOLEAN :
       todo' = Advance(todo, [event |-> role, id |-> Head(todo).id,
                              holds |-> holds])
  /\ UNCHANGED program
Finish == todo = <<>> /\ todo' = Over /\ UNCHANGED program

SSpec == SInit /\ [][Write \/ Start \/ Perform \/ Finish]_svars
=============================================================================
