------------------------------- MODULE Codegen -------------------------------
(***************************************************************************)
(* The template engine that writes the files for cmake (lemoon/codegen):   *)
(* the lexer cuts a template into text and code blocks, the renderer makes *)
(* a Lua script of them, and the script, when it is run, writes the result *)
(* and may include other templates.                                        *)
(*                                                                         *)
(* A template is a sequence of items: characters, and code blocks by what  *)
(* is in them.  What tells characters apart here is what they do to the    *)
(* script: text is written as [[text]], which leaves out a newline at the  *)
(* beginning and ends at the first ]].  A block is a statement when it     *)
(* begins with one of the words for, if, else, end or include, also when   *)
(* it is a call of a function such as format, else its value is written.   *)
(***************************************************************************)
EXTENDS Naturals, Sequences, SequencesExt

CONSTANTS
  GenMain, Sub,     \* templates; Sub may be included
  Sources,          \* what the templates may be
  Char,             \* characters that are written as they are
  Newline, Ending,  \* a newline; text with ]] in it
  Value,            \* @{{name}}
  KeyLike,          \* @{{format(name)}}: a value that begins with a key word
  If, GenEnd,       \* @{{if condition then}}, @{{end}}
  Include,          \* @{{include(Sub)}}
  Open,             \* @{{ without }} after it
  GenMaxDepth       \* bound: the stack; deeper recursion overflows it

Text     == Char \cup {Newline, Ending}
Block    == {Value, KeyLike, If, GenEnd, Include}
Template == {GenMain, Sub}

ASSUME CodegenAssumption ==
  /\ GenMain # Sub /\ GenMaxDepth \in Nat \ {0}
  /\ Sources \subseteq [Template -> Seq(Text \cup Block \cup {Open})]
  /\ \A s \in Sources, t \in Template : \A i, j \in 1..Len(s[t]) :
       s[t][i] = Open /\ i < j => s[t][j] \in Text

VARIABLES
  src,        \* the templates
  condition,  \* what the condition of every if is
  lexing,     \* templates that are not compiled yet; the first is being cut
  pos,        \* items that the lexer has passed
  plain,      \* whether it is outside of blocks; else the next item is what it is in
  script,     \* script[t]: the statements made of t so far
  genStack,   \* scripts that run: the template, the statement, ifs that are not taken
  out,        \* what has been written
  genOutcome

genVars == <<src, condition, lexing, pos, plain, script, genStack, out, genOutcome>>

GenInit ==
  /\ src \in Sources /\ condition \in BOOLEAN
  /\ lexing = <<GenMain, Sub>> /\ pos = 0 /\ plain = TRUE
  /\ script = [t \in Template |-> <<>>]
  /\ genStack = <<>> /\ out = <<>> /\ genOutcome = "none"

-----------------------------------------------------------------------------
(* The lexer: text up to the next @{{, then what the block holds. *)

GenSource == src[Head(lexing)]
Lexing == genOutcome = "none" /\ lexing # <<>>

\* Where the text from here on ends.
BlockAt ==
  LET i == SelectInSubSeq(GenSource, pos + 1, Len(GenSource), LAMBDA item : item \notin Text)
  IN  IF i = 0 THEN Len(GenSource) + 1 ELSE i

\* lexer.pos >= #lexer.src: nothing is left to read, or a single character.
OneCharacter(items) == Len(items) = 1 /\ items[1] \in Char \cup {Newline}
AtEnd ==
  LET left == SubSeq(GenSource, IF plain THEN pos + 1 ELSE pos + 2, Len(GenSource))
  IN  /\ ~plain => GenSource[pos + 1] = Open
      /\ left = <<>> \/ OneCharacter(left)

Emit(statement) == script' = [script EXCEPT ![Head(lexing)] = Append(@, statement)]

LexText ==
  /\ Lexing /\ ~AtEnd /\ plain
  /\ Emit(SubSeq(GenSource, pos + 1, BlockAt - 1))
  /\ pos' = BlockAt - 1 /\ plain' = (BlockAt > Len(GenSource))
  /\ UNCHANGED <<src, condition, lexing, genStack, out, genOutcome>>

LexBlock ==
  /\ Lexing /\ ~AtEnd /\ ~plain /\ GenSource[pos + 1] # Open
  /\ Emit(GenSource[pos + 1])
  /\ pos' = pos + 1 /\ plain' = TRUE
  /\ UNCHANGED <<src, condition, lexing, genStack, out, genOutcome>>

\* throw("unclosed code block(%s)")
Unclosed ==
  /\ Lexing /\ ~AtEnd /\ ~plain /\ GenSource[pos + 1] = Open
  /\ genOutcome' = "unclosed"
  /\ UNCHANGED <<src, condition, lexing, pos, plain, script, genStack, out>>

EndTemplate ==
  /\ Lexing /\ AtEnd
  /\ lexing' = Tail(lexing) /\ pos' = 0 /\ plain' = TRUE
  /\ UNCHANGED <<src, condition, script, genStack, out, genOutcome>>

-----------------------------------------------------------------------------
(* The scripts. *)

Rendering == genOutcome = "none" /\ lexing = <<>> /\ genStack # <<>>
GenTop       == Last(genStack)
Statement == script[GenTop.template][GenTop.at]
AtStatement == Rendering /\ GenTop.at <= Len(script[GenTop.template])
Runs        == AtStatement /\ GenTop.skips = 0
GenGo(skips) ==
  genStack' = Append(Front(genStack), [GenTop EXCEPT !.at = @ + 1, !.skips = skips])

\* Lua can load the script: its blocks are closed, and no text ends too early.
Count(statements, s) == Len(SelectSeq(statements, LAMBDA x : x = s))
Balanced(statements) ==
  /\ Count(statements, If) = Count(statements, GenEnd)
  /\ \A i \in 1..Len(statements) :
       LET begun == SubSeq(statements, 1, i) IN Count(begun, If) >= Count(begun, GenEnd)
Loads(t) ==
  /\ Balanced(script[t])
  /\ \A i \in 1..Len(script[t]) :
       script[t][i] \notin Block => Ending \notin ToSet(script[t][i])

Eval(t, below) ==
  IF ~Loads(t) THEN genOutcome' = "load" /\ UNCHANGED genStack
  ELSE IF Len(below) = GenMaxDepth THEN genOutcome' = "overflow" /\ UNCHANGED genStack
  ELSE genStack' = Append(below, [template |-> t, at |-> 1, skips |-> 0]) /\ UNCHANGED genOutcome

Render ==
  /\ genOutcome = "none" /\ lexing = <<>> /\ genStack = <<>>
  /\ Eval(GenMain, <<>>)
  /\ UNCHANGED <<src, condition, lexing, pos, plain, script, out>>

\* write([[text]]): Lua leaves out a newline right after [[.
Written(text) == IF text # <<>> /\ Head(text) = Newline THEN Tail(text) ELSE text

GenWrite ==
  /\ Runs /\ Statement \notin Block \ {Value}
  /\ out' = out \o (IF Statement = Value THEN <<Value>> ELSE Written(Statement))
  /\ GenGo(0)
  /\ UNCHANGED <<src, condition, lexing, pos, plain, script, genOutcome>>

\* A call that was taken for a statement: what it returns is dropped.
GenCall ==
  /\ Runs /\ Statement = KeyLike
  /\ GenGo(0)
  /\ UNCHANGED <<src, condition, lexing, pos, plain, script, out, genOutcome>>

FaultyBranch ==   \* only the outer if counts
  /\ AtStatement /\ Statement \in {If, GenEnd}
  /\ GenGo(IF Statement = If THEN IF condition THEN GenTop.skips ELSE 1
        ELSE 0)
  /\ UNCHANGED <<src, condition, lexing, pos, plain, script, out, genOutcome>>

Branch ==
  /\ AtStatement /\ Statement \in {If, GenEnd}
  /\ GenGo(IF Statement = If THEN IF GenTop.skips = 0 /\ condition THEN 0 ELSE GenTop.skips + 1
        ELSE IF GenTop.skips = 0 THEN 0 ELSE GenTop.skips - 1)
  /\ UNCHANGED <<src, condition, lexing, pos, plain, script, out, genOutcome>>

Skip ==
  /\ AtStatement /\ GenTop.skips > 0 /\ Statement \notin {If, GenEnd}
  /\ GenGo(GenTop.skips)
  /\ UNCHANGED <<src, condition, lexing, pos, plain, script, out, genOutcome>>

\* __codegen_render(name, env): the same engine, one call deeper, with the same writer.
IncludeSub ==
  /\ Runs /\ Statement = Include
  /\ Eval(Sub, Append(Front(genStack), [GenTop EXCEPT !.at = @ + 1]))
  /\ UNCHANGED <<src, condition, lexing, pos, plain, script, out>>

GenReturn ==
  /\ Rendering /\ GenTop.at > Len(script[GenTop.template])
  /\ genStack' = Front(genStack)
  /\ genOutcome' = IF Len(genStack) = 1 THEN "done" ELSE genOutcome
  /\ UNCHANGED <<src, condition, lexing, pos, plain, script, out>>

GenNext ==
  \/ LexText \/ LexBlock \/ Unclosed \/ EndTemplate
  \/ Render \/ GenWrite \/ GenCall \/ Branch \/ Skip \/ IncludeSub \/ GenReturn

GenSpec     == GenInit /\ [][GenNext]_genVars

-----------------------------------------------------------------------------
(* Properties. *)

\* What the renderer is known to lose: a newline that follows a block or begins the
\* template ([[ takes it), a single character after the last block (the lexer takes it for
\* the end), a value that looks like a statement, and @{{ at the very end.
Lost(t, i) ==
  LET begins == i = 1 \/ (i > 1 /\ src[t][i - 1] \notin Text)
  IN  \/ src[t][i] \in {KeyLike, Open}
      \/ begins /\ src[t][i] = Newline
      \/ begins /\ i = Len(src[t]) /\ src[t][i] \in Char

Kept(t) == SelectSeq([i \in 1..Len(src[t]) |-> IF Lost(t, i) THEN Open ELSE src[t][i]],
                     LAMBDA item : item # Open)

\* What a template means: its text, its values, what it includes, but for what stands in an
\* if that is not taken; with room for n nested templates.
Meant[n \in 0..GenMaxDepth] ==
  [t \in Template |->
     IF n = 0 THEN <<>>
     ELSE LET read(done, item) ==
                IF item = If
                  THEN [done EXCEPT !.skips = IF @ = 0 /\ condition THEN 0 ELSE @ + 1]
                ELSE IF item = GenEnd THEN [done EXCEPT !.skips = IF @ = 0 THEN 0 ELSE @ - 1]
                ELSE IF done.skips > 0 THEN done
                ELSE [done EXCEPT !.text =
                        @ \o IF item = Include THEN Meant[n - 1][Sub] ELSE <<item>>]
          IN  FoldLeft(read, [text |-> <<>>, skips |-> 0], Kept(t)).text]

\* A rendering that ends well has written what the template means, in order, without the
\* four losses and nothing else: however blocks, texts and includes are mixed
\* (lexer.lua:15-43, render.lua:17-51, 58-76).
OnlyTheseAreLost == genOutcome = "done" => out = Meant[GenMaxDepth][GenMain]

=============================================================================
