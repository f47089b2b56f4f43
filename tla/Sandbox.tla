------------------------------- MODULE Sandbox -------------------------------
(***************************************************************************)
(* The sandboxes that configuration, package and plugin scripts run in     *)
(* (gsmake/init.lua).                                                      *)
(*                                                                         *)
(* Every sandbox has a require of its own around Lua's.  It exchanges what *)
(* Lua's table of loaded modules holds for what the sandbox has loaded,    *)
(* lets Lua's require find or load the module, and exchanges again; what   *)
(* it gets is a function that runs the module's code in the sandbox, and   *)
(* it runs that code at every require.  The functions of init.lua share    *)
(* one variable for their environment, which each require sets to its own  *)
(* sandbox: sandbox.new loads the constructor of a new sandbox with the    *)
(* require of whichever sandbox required last.  A script may catch what a  *)
(* require throws and go on.                                               *)
(***************************************************************************)
EXTENDS Naturals, Sequences, SequencesExt, FiniteSets

CONSTANTS
  Env,         \* sandboxes
  BoxMain,     \* the one of main.lua
  Module,      \* names of Lua modules
  Ctor,        \* the module that sets a sandbox up; on every path
  Std,         \* a library that was loaded before the first sandbox
  Uses,        \* Uses[m]: what the code of m requires, in order
  Scripts,     \* what the scripts of sandboxes require
  BoxNone,     \* nothing loaded
  BoxMaxDepth  \* bound: the stack; deeper recursion overflows it

BoxName == Module \cup {Std}

ASSUME SandboxAssumption ==
  /\ BoxMain \in Env /\ Ctor \in Module /\ Std \notin Module /\ {BoxNone, Std} \cap Env = {}
  /\ Uses \in [Module -> Seq(BoxName)] /\ Scripts \subseteq Seq(BoxName)
  /\ \A i \in DOMAIN Uses[Ctor] : Uses[Ctor][i] = Std
  /\ BoxMaxDepth \in Nat

VARIABLES
  loaded,    \* loaded[e]: env.package.loaded, for each name who loaded it
  real,      \* Lua's own table of loaded modules
  made,      \* the sandboxes there are
  finds,     \* finds[e]: modules on the package.path of e
  chunk,     \* the environment that the functions of init.lua share
  boxStack,  \* scripts and modules that run: where, and what they still require
  boxRan     \* history: code that ran: who loaded it, its name, where it ran

boxVars == <<loaded, real, made, finds, chunk, boxStack, boxRan>>

\* resetloaded when init.lua is loaded: Lua's table is emptied, and what it held is preload.
preload == [n \in BoxName |-> IF n = Std THEN Std ELSE BoxNone]
empty   == [n \in BoxName |-> BoxNone]

BoxFrame(e, todo) == [env |-> e, todo |-> todo]

BoxInit ==
  /\ loaded = [e \in Env |-> preload] /\ real = empty
  /\ made = {BoxMain} /\ finds \in [Env -> {S \in SUBSET Module : Ctor \in S}]
  /\ chunk = BoxMain
  /\ \E s \in Scripts : boxStack = <<BoxFrame(BoxMain, s)>>
  /\ boxRan = {}

BoxTop     == Last(boxStack)
Running == boxStack # <<>>

-----------------------------------------------------------------------------
\* Lua's require on the table of the sandbox: the module that is there, or the file on
\* the sandbox's path.
Found(e, n)  == loaded[e][n] # BoxNone \/ n \in finds[e]
BoxLoaded(e, n) == IF loaded[e][n] # BoxNone THEN loaded[e] ELSE [loaded[e] EXCEPT ![n] = e]

\* The code of what was found runs on top of the caller's, which goes on after it.
BoxRun(e, n, below) ==
  IF n = Std THEN boxStack' = below /\ UNCHANGED boxRan
  ELSE /\ boxStack' = Append(below, BoxFrame(e, Uses[n]))
       /\ boxRan' = boxRan \cup {<<BoxLoaded(e, n)[n], n, e>>}

\* The caller's next require, when it has one.
Next1(f) == [f EXCEPT !.todo = Tail(@)]

Require ==
  /\ Running /\ BoxTop.todo # <<>>
  /\ LET e == BoxTop.env
         n == Head(BoxTop.todo)
     IN  /\ Found(e, n) /\ (n # Std => Len(boxStack) < BoxMaxDepth)
         /\ chunk' = e
         /\ BoxRun(e, n, Append(Front(boxStack), Next1(BoxTop)))
         /\ loaded' = [loaded EXCEPT ![e] = BoxLoaded(e, n)]
  /\ UNCHANGED <<real, made, finds>>

\* A throw ends everything down to the code that catches it, if any.  The frames below
\* have gone on to what comes after the call already.
Caught == \E k \in 0..Len(boxStack) :
  boxStack' = IF k = Len(boxStack) THEN Append(Front(boxStack), Next1(BoxTop))
                                   ELSE SubSeq(boxStack, 1, k)

\* Not found: Lua's require throws, and its table stays exchanged.
RequireFails ==
  /\ Running /\ BoxTop.todo # <<>> /\ ~Found(BoxTop.env, Head(BoxTop.todo))
  /\ chunk' = BoxTop.env /\ real' = loaded[BoxTop.env]
  /\ Caught
  /\ UNCHANGED <<loaded, made, finds, boxRan>>

\* Modules that require each other recurse until the stack is full.
Overflow ==
  /\ Running /\ BoxTop.todo # <<>> /\ Found(BoxTop.env, Head(BoxTop.todo))
  /\ Head(BoxTop.todo) # Std /\ Len(boxStack) = BoxMaxDepth
  /\ chunk' = BoxTop.env
  /\ loaded' = [loaded EXCEPT ![BoxTop.env] = BoxLoaded(BoxTop.env, Head(BoxTop.todo))]
  /\ Caught
  /\ UNCHANGED <<real, made, finds, boxRan>>

\* Code that is through returns.
BoxReturn ==
  /\ Running /\ BoxTop.todo = <<>>
  /\ boxStack' = Front(boxStack)
  /\ UNCHANGED <<loaded, real, made, finds, chunk, boxRan>>

FaultyNewSandbox(e) ==   \* begins with Lua's table instead of preload
  /\ Running /\ e \notin made /\ Len(boxStack) + 2 <= BoxMaxDepth
  /\ made' = made \cup {e}
  /\ loaded' = [loaded EXCEPT ![e] = [n \in BoxName |-> IF n = Std THEN Std ELSE real[n]],
                              ![chunk] = BoxLoaded(chunk, Ctor)]
  /\ \E s \in Scripts : BoxRun(chunk, Ctor, Append(boxStack, BoxFrame(e, s)))
  /\ UNCHANGED <<real, finds, chunk>>

\* sandbox.new and sandbox.run: the constructor's module is required by the sandbox that
\* required last, then the script runs in the new one.
NewSandbox(e) ==
  /\ Running /\ e \notin made /\ Len(boxStack) + 2 <= BoxMaxDepth
  /\ made' = made \cup {e}
  /\ loaded' = [loaded EXCEPT ![e] = preload, ![chunk] = BoxLoaded(chunk, Ctor)]
  /\ \E s \in Scripts : BoxRun(chunk, Ctor, Append(boxStack, BoxFrame(e, s)))
  /\ UNCHANGED <<real, finds, chunk>>

BoxNext ==
  \/ Require \/ RequireFails \/ Overflow \/ BoxReturn
  \/ \E e \in Env : NewSandbox(e)

BoxSpec == BoxInit /\ [][BoxNext]_boxVars

-----------------------------------------------------------------------------
(* Properties. *)

\* The code of a module runs only in the sandbox that loaded it, also after requires that
\* threw: the functions it has left behind share one environment variable with it, which
\* the next run sets, so none of them is moved into another sandbox (init.lua:17-22, 124-134).
CodeStaysInItsSandbox == \A r \in boxRan : r[1] = r[3]

=============================================================================
