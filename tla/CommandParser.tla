---------------------------- MODULE CommandParser ----------------------------
(***************************************************************************)
(* parseCommand (internal/resourcebuilder/deployment.go): how the command  *)
(* line a user writes becomes the command of a container, of an init       *)
(* container or of a probe.                                                *)
(*                                                                         *)
(* A command line is the shell it begins with ("sh -c ", "/bin/sh -c "),   *)
(* if any, and the text that follows, a sequence over a few characters:    *)
(* letters, the two quotes, the space, and one that stands for each of the *)
(* operators && || | > <.                                                  *)
(***************************************************************************)
EXTENDS Naturals, Sequences, SequencesExt, SequenceFilters

CONSTANT Letters

Quotes == {"single", "double"}
Chars == Letters \union Quotes \union {"space", "operator"}

(* A letter is none of the other characters, nor what the parser puts in   *)
(* front of a shell's argument.                                            *)
ASSUME LettersAssumption ==
  Letters \cap (Quotes \union {"space", "sh", "/bin/sh", "-c"}) = {}

NoShell == "none"
(* The third prefix, "bash -c ", is to the code what "sh -c " is.          *)
Shells == {"none", "sh", "/bin/sh"}

NoQuote == "none"

(* strings.TrimSpace, strings.Trim: what has, at or before it and at or    *)
(* after it, a character that is not in the cutset.                        *)
Trim(text, cutset) ==
  LET kept == {i \in DOMAIN text : text[i] \notin cutset}
  IN  KeptAt(text, {i \in DOMAIN text : \E j, k \in kept : j <= i /\ i <= k})

Quoted(text) == text # <<>> /\ text[1] \in Quotes /\ text[Len(text)] = text[1]

(* After a prefix the rest is one argument; a pair of quotes around it     *)
(* goes.                                                                   *)
ShellCommand(shell, text) ==
  LET arg == Trim(text, {"space"})
  IN  <<<<shell>>, <<"-c">>, IF Quoted(arg) THEN SubSeq(arg, 2, Len(arg) - 1) ELSE arg>>

(* A lone quote is prefix and suffix at once: arg[1:0] panics.             *)
Panics(command) ==
  LET arg == Trim(command.text, {"space"})
  IN  command.shell # NoShell /\ Quoted(arg) /\ Len(arg) = 1

(* The loop over the characters: words that are complete, the current one, *)
(* the quote it is in.                                                     *)
Start == [words |-> <<>>, current |-> <<>>, quote |-> NoQuote]

EndWord(s) ==
  IF s.current = <<>> THEN s
                      ELSE [s EXCEPT !.words = Append(@, s.current), !.current = <<>>]

ReadBlindly(s, c) ==   \* mistake: a space splits inside quotes too
  CASE c \in Quotes /\ s.quote = c       -> [s EXCEPT !.quote = NoQuote]
    [] c \in Quotes /\ s.quote = NoQuote -> [s EXCEPT !.quote = c]
    [] c = "space"                       -> EndWord(s)
    [] OTHER                             -> [s EXCEPT !.current = Append(@, c)]

Read(s, c) ==
  CASE c \in Quotes /\ s.quote = c         -> [s EXCEPT !.quote = NoQuote]
    [] c \in Quotes /\ s.quote = NoQuote   -> [s EXCEPT !.quote = c]
    [] c = "space" /\ s.quote = NoQuote    -> EndWord(s)
    [] OTHER                               -> [s EXCEPT !.current = Append(@, c)]

Loop(text) ==
  LET after[i \in 0 .. Len(text)] == IF i = 0 THEN Start ELSE Read(after[i - 1], text[i])
  IN  after

After(text) == Loop(text)[Len(text)]

WordsCompleted(text) ==   \* mistake: the last part is not added
  After(text).words

Words(text) == EndWord(After(text)).words

SplitCommand(text) ==
  LET words == Words(text) IN [i \in DOMAIN words |-> Trim(words[i], Quotes)]

ParseCommand(command) ==
  CASE command.shell # NoShell                 -> ShellCommand(command.shell, command.text)
    [] command.shell = NoShell /\ "operator" \in ToSet(command.text)
                                               -> <<<<"/bin/sh">>, <<"-c">>, command.text>>
    [] OTHER                                   -> SplitCommand(command.text)

(* BuildDeployment hands the result to the container.                      *)
IsShellCommand(parsed) ==
  Len(parsed) >= 3 /\ parsed[1] = <<"/bin/sh">> /\ parsed[2] = <<"-c">>

Container(parsed) ==
  CASE IsShellCommand(parsed) -> [command |-> parsed, args |-> <<>>]
    [] parsed = <<>>          -> [command |-> <<>>, args |-> <<>>]
    [] OTHER                  -> [command |-> <<parsed[1]>>, args |-> Tail(parsed)]

-----------------------------------------------------------------------------
(* What the result owes the text.                                          *)

(* The words of a text with one kind of quote, without a loop: a space     *)
(* separates when an even number of quotes stands before it.               *)
QuotesBefore(text, i) == {j \in 1 .. i - 1 : text[j] \in Quotes}

Separators(text) ==
  {i \in DOMAIN text : text[i] = "space" /\ Cardinality(QuotesBefore(text, i)) % 2 = 0}

(* The k-th piece: what has k - 1 separators before it, without quotes.    *)
SeparatorsBefore(text, i) == {j \in Separators(text) : j < i}

Piece(text, k) ==
  KeptAt(text, {i \in DOMAIN text \ Separators(text) :
                  /\ text[i] \notin Quotes
                  /\ Cardinality(SeparatorsBefore(text, i)) = k - 1})

NonEmpty(pieces) == KeptAt(pieces, {k \in DOMAIN pieces : pieces[k] # <<>>})

WordsByPosition(text) ==
  NonEmpty([k \in 1 .. Cardinality(Separators(text)) + 1 |-> Piece(text, k)])

OneKindOfQuote(text) == ~(Quotes \subseteq ToSet(text))

(* parseCommand's loop (:287-328): without operators and nested quotes,    *)
(* the arguments are the words as quoted, an unclosed quote included.      *)
SplitAsQuoted(command) ==
  command.shell = NoShell /\ "operator" \notin ToSet(command.text) /\ OneKindOfQuote(command.text)
    => ParseCommand(command) = WordsByPosition(command.text)

(* Whatever branch is taken (:244-329, :132-147), every letter and         *)
(* operator of the text reaches the container, in order.                   *)
Substance(text) == Kept(text, Letters \union {"operator"})

TextDelivered(command) ==
  ~Panics(command) =>
    LET c == Container(ParseCommand(command))
    IN  Substance(FlattenSeq(c.command \o c.args)) = Substance(command.text)

=============================================================================
