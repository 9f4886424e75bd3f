------------------------------ MODULE Session -------------------------------
(***************************************************************************)
(* Threads of a host that call the language through the interpreter, which  *)
(* keeps nothing between calls, and through the one embedded session of     *)
(* src/embed.rs, which runs one call at a time and stands behind a mutex:   *)
(*                                                                         *)
(*   Call       a thread stages the arguments of its next call             *)
(*   Interpret  execute_with_policy, without the session                   *)
(*   Acquire    the mutex is free: take it, or find it poisoned             *)
(*   Enter      session.call begins: the session holds the arguments       *)
(*   Leave      it ends: the answer is read and the guard dropped           *)
(*   Panic      it panics: the guard is dropped and the mutex poisoned      *)
(*                                                                         *)
(* What happens inside the session is the library's: it computes what it    *)
(* was last given.  A panic of its own is a fault embed.rs handles.         *)
(***************************************************************************)
EXTENDS Bridge

CONSTANTS
    Threads,
    MaxCalls,   \* bound: calls of a thread
    MaxPanics   \* bound: panics of the session, 0 or 1 (then it is poisoned)

ASSUME SessionAssumption == MaxCalls \in Nat /\ MaxPanics \in Nat

VARIABLES
    pc,         \* where each thread is
    asked,      \* its last call: route, function and arguments
    reply,      \* what that call returned to it
    made,       \* calls it made
    owner,      \* of the mutex: a set of at most one thread
    poisoned,   \* a holder panicked
    panics,     \* history: panics of the session
    frame       \* what the session was last given

mutex == <<owner, poisoned, panics, frame>>
sessionVars == <<pc, asked, reply, made, mutex>>

Embedded == {"next_line", "field_at", "classify_event"}

NoReply == [status |-> "none"]
NoCall == [route |-> "none", function |-> "none", args |-> << >>]
IdleFrame == [function |-> "none", values |-> << >>]

Waiting(t) == pc[t] \in {"acquire", "holding", "inside"}

Values(t) == Arguments(asked[t].function, asked[t].args)

ReplyTo(t, output) == Reply(asked[t].function, asked[t].args, output)

Set(f, t, x) == [f EXCEPT ![t] = x]

Answer(t, r) == pc' = Set(pc, t, "answered") /\ reply' = Set(reply, t, r)

-----------------------------------------------------------------------------
SessionInit ==
    /\ pc = [t \in Threads |-> "idle"]
    /\ asked = [t \in Threads |-> NoCall]
    /\ reply = [t \in Threads |-> NoReply]
    /\ made = [t \in Threads |-> 0]
    /\ owner = {} /\ poisoned = FALSE /\ panics = 0
    /\ frame = IdleFrame

\* Arguments are staged before the mutex is asked for: an assertion that fails
\* there takes its thread down and nothing else.
Call(t, route, function, args) ==
    /\ pc[t] \in {"idle", "answered"}
    /\ made[t] < MaxCalls
    /\ route = "session" => function \in Embedded
    /\ made' = Set(made, t, made[t] + 1)
    /\ asked' = Set(asked, t,
           [route |-> route, function |-> function, args |-> args])
    /\ \/ /\ StagingFits(function, args) /\ Acceptable(function, args)
          /\ pc' = Set(pc, t, IF route = "session" THEN "acquire"
                              ELSE "interpret")
          /\ reply' = Set(reply, t, NoReply)
       \/ /\ StagingFits(function, args) /\ ~Acceptable(function, args)
          /\ Answer(t, LanguageError)
       \/ /\ ~StagingFits(function, args)
          /\ pc' = Set(pc, t, "panicked")
          /\ reply' = Set(reply, t, NoReply)
    /\ UNCHANGED mutex

Interpret(t) ==
    /\ pc[t] = "interpret"
    /\ \E output \in {Execute(asked[t].function, Values(t))} :
           Answer(t, ReplyTo(t, output))
    /\ UNCHANGED <<asked, made, mutex>>

\* Mistake: nobody waits for the mutex.
AcquireAtOnce(t) ==
    /\ pc[t] = "acquire"
    /\ \/ /\ ~poisoned
          /\ pc' = Set(pc, t, "holding")
          /\ owner' = owner \cup {t}
          /\ UNCHANGED reply
       \/ /\ poisoned
          /\ Answer(t, LanguageError)
          /\ UNCHANGED owner
    /\ UNCHANGED <<asked, made, poisoned, panics, frame>>

Acquire(t) ==
    /\ pc[t] = "acquire" /\ owner = {}
    /\ \/ /\ ~poisoned
          /\ pc' = Set(pc, t, "holding")
          /\ owner' = {t}
          /\ UNCHANGED reply
       \/ /\ poisoned
          /\ Answer(t, LanguageError)
          /\ UNCHANGED owner
    /\ UNCHANGED <<asked, made, poisoned, panics, frame>>

Enter(t) ==
    /\ pc[t] = "holding"
    /\ pc' = Set(pc, t, "inside")
    /\ frame' = [function |-> asked[t].function, values |-> Values(t)]
    /\ UNCHANGED <<asked, reply, made, owner, poisoned, panics>>

\* Mistake: the guard outlives a call that did not return.
LeaveKeepsGuard(t) ==
    /\ pc[t] = "inside"
    /\ \E output \in {Execute(frame.function, frame.values)} :
           /\ Answer(t, ReplyTo(t, output))
           /\ owner' = IF output.status = "returned" THEN owner \ {t} ELSE owner
    /\ UNCHANGED <<asked, made, poisoned, panics, frame>>

\* The guard is dropped on every way out.
Leave(t) ==
    /\ pc[t] = "inside"
    /\ \E output \in {Execute(frame.function, frame.values)} :
           Answer(t, ReplyTo(t, output))
    /\ owner' = owner \ {t}
    /\ UNCHANGED <<asked, made, poisoned, panics, frame>>

Panic(t) ==
    /\ pc[t] = "inside" /\ panics < MaxPanics
    /\ pc' = Set(pc, t, "panicked")
    /\ owner' = owner \ {t}
    /\ poisoned' = TRUE
    /\ panics' = panics + 1
    /\ UNCHANGED <<asked, reply, made, frame>>

\* What a thread does of its own accord once it has asked for the session.
SessionStep(t) == Acquire(t) \/ Enter(t) \/ Leave(t)
=============================================================================
