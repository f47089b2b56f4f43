------------------------------- MODULE MCStart -------------------------------
(* What gsmake does in Lua before and around its tasks, for TLC: one part is   *)
(* under way, the others rest in a state to begin with.  Each has state of its *)
(* own.                                                                        *)
EXTENDS PluginLoader, Bootstrap, PackageCache, Sandbox, Codegen

CONSTANTS first, second, v1, v2, here, there, modA, modB, x
CONSTANT  MaxLen   \* bound: items of a template

\* PluginLoader: one plugin, without plugins of its own.
single == [n \in {"root", "lua"} |-> IF n = "root" THEN {"lua"} ELSE {}]

\* Bootstrap: of the plugins lua, of the downloaders git; boost is a package of the remote.
declared == [n \in {"lua", "commands", "git", "boost"} |-> IF n = "lua" THEN {} ELSE {"lua"}]

\* Sandbox: two modules that require each other.
uses == [m \in Module |-> CASE m = modA -> <<Std, modB>>
                            [] m = modB -> <<modA>>
                            [] OTHER    -> <<Std>>]
scripts == {<<modA>>, <<Std, modB>>, <<modB, modA>>}

\* Codegen: every template of MaxLen items, also with an @{{ that nothing closes; what it
\* includes has an if in an if, newlines at its ends, or includes itself.
Item  == Text \cup Block
mains == BoundedSeq(Item, MaxLen) \cup
         {c \o <<Open>> \o t : c \in BoundedSeq(Item, MaxLen - 2), t \in BoundedSeq(Text, 2)}
subs  == {<<x, x>>, <<Newline, x, Value, Newline>>, <<If, If, GenEnd, x, GenEnd, x>>,
          <<x, Include>>}
sources == {[t \in {GenMain, Sub} |-> IF t = GenMain THEN m ELSE s] : m \in mains, s \in subs}

-----------------------------------------------------------------------------
VARIABLE part   \* which one is under way

allVars == <<part, vars, bootVars, cacheVars, boxVars, genVars>>

\* States to rest in.
BoxRests == /\ finds = [e \in Env |-> {Ctor}] /\ boxStack = <<BoxFrame(BoxMain, <<modA>>)>>
            /\ BoxInit
GenRests == src = [t \in {GenMain, Sub} |-> <<x, x>>] /\ condition = TRUE /\ GenInit

StartInit ==
  /\ Init /\ BootInit /\ CacheInit
  /\ \/ part \in {"plugins", "bootstrap", "cache"} /\ BoxRests /\ GenRests
     \/ part = "sandbox" /\ GenRests /\ BoxInit
     \/ part = "template" /\ BoxRests /\ GenInit

Loading    == part = "plugins" /\ Next
              /\ UNCHANGED <<part, bootVars, cacheVars, boxVars, genVars>>
Booting    == part = "bootstrap" /\ BootNext
              /\ UNCHANGED <<part, vars, cacheVars, boxVars, genVars>>
Adding     == part = "cache" /\ CacheNext
              /\ UNCHANGED <<part, vars, bootVars, boxVars, genVars>>
Requiring  == part = "sandbox" /\ BoxNext
              /\ UNCHANGED <<part, vars, bootVars, cacheVars, genVars>>
Generating == part = "template" /\ GenNext
              /\ UNCHANGED <<part, vars, bootVars, cacheVars, boxVars>>

StartSpec ==
  StartInit /\ [][Loading \/ Booting \/ Adding \/ Requiring \/ Generating]_allVars

=============================================================================
