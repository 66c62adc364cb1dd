-------------------------------- MODULE Using --------------------------------
(***************************************************************************)
(* using/: one Resource, and goroutines that Use it.  Each Use creates a   *)
(* value of its own, but the flag released belongs to the Resource, and    *)
(* every Use resets it.                                                    *)
(***************************************************************************)
EXTENDS Naturals, Sequences

CONSTANTS
    Kinds,   \* constructors of resources, or "nil"
    Uses     \* the calls of Use: each is a goroutine of its own

VARIABLES
    res,        \* the kind of the resource, or "nil"
    released,   \* of the Resource
    upc,        \* of each Use: "new", "reset", "made", "deferred", "closing", "ended"
    open,       \* Uses whose handle is open
    exists,     \* Uses whose file or directory is on disk
    fault,      \* of each Use: what went wrong: "create", "func", "panic", "close", "nil"
    gave,       \* Uses whose function called Release, and kept the value
    again       \* of those, the ones after which another Use reset the flag

usingVars == <<res, released, upc, open, exists, fault, gave, again>>

-----------------------------------------------------------------------------
(* What the closers of the constructors give back, step by step: a step    *)
(* that fails ends the closer.  Definitions named ..._x are wrong.         *)

WrapCloser == <<"handle">>
File == [makes |-> {}, closes |-> WrapCloser]
OpenFile == [makes |-> {"handle"}, closes |-> WrapCloser]
CreateFile == OpenFile
Writer == [makes |-> {"handle"}, closes |-> <<>>]      \* not an io.WriteCloser
Reader == Writer
ReadWriter == Writer
TempDir == [makes |-> {"file"}, closes |-> <<"file">>]
TempFile_x == [makes |-> {"handle", "file"}, closes |-> <<"handle">>]
TempFile == [makes |-> {"handle", "file"}, closes |-> <<"handle", "file">>]

NewResource ==
    [File |-> File, OpenFile |-> OpenFile, CreateFile |-> CreateFile, Writer |-> Writer,
     Reader |-> Reader, ReadWriter |-> ReadWriter, TempDir |-> TempDir, TempFile |-> TempFile]

ASSUME UsingAssumption == Kinds \subseteq DOMAIN NewResource \cup {"nil"}

UsingInit ==
    /\ res \in Kinds /\ released = FALSE
    /\ upc = [u \in Uses |-> <<"new", 0>>]
    /\ open = {} /\ exists = {} /\ gave = {} /\ again = {}
    /\ fault = [u \in Uses |-> {}]

-----------------------------------------------------------------------------
Proceed(u, from, to) == upc[u] = from /\ upc' = [upc EXCEPT ![u] = to]
Fault(u, f) == fault' = [fault EXCEPT ![u] = @ \cup {f}]

\* Use of a nil resource, or with a nil function: nothing is created.  The flag is
\* reset before the function is looked at.
UseNil(u) ==
    /\ Proceed(u, <<"new", 0>>, <<"ended", 0>>) /\ Fault(u, "nil")
    /\ \/ res = "nil" /\ UNCHANGED <<released, again>>
       \/ res # "nil" /\ released' = FALSE /\ again' = gave
    /\ UNCHANGED <<res, open, exists, gave>>

Use(u) ==
    /\ res # "nil" /\ Proceed(u, <<"new", 0>>, <<"reset", 0>>)
    /\ released' = FALSE /\ again' = gave
    /\ UNCHANGED <<res, open, exists, fault, gave>>

CreateFails(u) ==
    /\ Proceed(u, <<"reset", 0>>, <<"ended", 0>>) /\ Fault(u, "create")
    /\ UNCHANGED <<res, released, open, exists, gave, again>>
use(u) ==
    /\ Proceed(u, <<"reset", 0>>, <<"made", 0>>)
    /\ LET made == NewResource[res].makes
       IN  /\ open' = IF "handle" \in made \/ res = "File" THEN open \cup {u} ELSE open
           /\ exists' = IF "file" \in made THEN exists \cup {u} ELSE exists
    /\ UNCHANGED <<res, released, fault, gave, again>>

\* The user's function keeps the value ...
Release(u) ==
    /\ upc[u] = <<"made", 0>> /\ u \notin gave
    /\ released' = TRUE /\ gave' = gave \cup {u}
    /\ UNCHANGED <<res, upc, open, exists, fault, again>>
\* ... and returns, with or without an error, or panics.
FuncEnds(u) ==
    /\ Proceed(u, <<"made", 0>>, <<"deferred", 0>>)
    /\ \/ UNCHANGED fault \/ Fault(u, "func") \/ Fault(u, "panic")
    /\ UNCHANGED <<res, released, open, exists, gave, again>>

\* The deferred function reads the flag, and runs the closer if it is not set.
Deferred_x(u) ==
    /\ Proceed(u, <<"deferred", 0>>, IF fault[u] # {} THEN <<"ended", 0>> ELSE <<"closing", 1>>)
    /\ UNCHANGED <<res, released, open, exists, fault, gave, again>>
Deferred(u) ==
    /\ Proceed(u, <<"deferred", 0>>, IF released THEN <<"ended", 0>> ELSE <<"closing", 1>>)
    /\ UNCHANGED <<res, released, open, exists, fault, gave, again>>

CloserSteps == NewResource[res].closes
Closes(u, i) ==
    /\ upc[u] = <<"closing", i>>
    /\ IF i > Len(CloserSteps)
       THEN upc' = [upc EXCEPT ![u] = <<"ended", 0>>] /\ UNCHANGED <<open, exists, fault>>
       ELSE \/ /\ upc' = [upc EXCEPT ![u] = <<"closing", i + 1>>]
               /\ open' = IF CloserSteps[i] = "handle" THEN open \ {u} ELSE open
               /\ exists' = IF CloserSteps[i] = "file" THEN exists \ {u} ELSE exists
               /\ UNCHANGED fault
            \/ /\ upc' = [upc EXCEPT ![u] = <<"ended", 0>>]
               /\ Fault(u, "close") /\ UNCHANGED <<open, exists>>
    /\ UNCHANGED <<res, released, gave, again>>

UsingStep(u) ==
    \/ CreateFails(u) \/ use(u) \/ FuncEnds(u) \/ Deferred(u)
    \/ \E i \in 1 .. 3 : Closes(u, i)
UsingNext == \E u \in Uses : UseNil(u) \/ Use(u) \/ Release(u) \/ UsingStep(u)
UsingSpec == UsingInit /\ [][UsingNext]_usingVars

-----------------------------------------------------------------------------
(* Properties                                                              *)

Ended(u) == upc[u] = <<"ended", 0>>

\* What a Use creates it gives back, also when the function fails or panics, unless
\* a closer failed, or a Release has set the flag while this Use had its value.
CreatedIsClosed ==
    \A u \in Uses : Ended(u) /\ "close" \notin fault[u] /\ gave = {} =>
       u \notin exists /\ (res # "nil" /\ CloserSteps # <<>> => u \notin open)

\* "Release ... preventing automatic cleanup": a value that was kept is not closed
\* by its own Use, unless another Use has begun after the Release.
KeptIsKept ==
    \A u \in gave \ again : res \in {"OpenFile", "TempFile"} => u \in open

\* Nothing that was not created is closed, nor closed twice.
OnlyOwnIsClosed ==
    \A u \in Uses : fault[u] \cap {"create", "nil"} # {} => u \notin open \cup exists \cup gave

UsingIsTrue == CreatedIsClosed /\ KeptIsKept /\ OnlyOwnIsClosed

=============================================================================
