---------------------------- MODULE SeedScreens ----------------------------
(***************************************************************************)
(* The seed screens of @me2em/react and their headless reducers: display   *)
(* with its single copy, verification on a grid, and import.  A word is a  *)
(* name; a phrase is a sequence of them.                                   *)
(*                                                                         *)
(* A click or a key is committed before the next; what an effect           *)
(* dispatches is committed later.  The headless driver dispatches to the   *)
(* verification reducer itself, in any order.                              *)
(***************************************************************************)
EXTENDS Naturals, Sequences, FiniteSets

CONSTANTS
  NoWord,        \* null: a field nothing was typed into
  Blank,         \* a field whose word was erased
  Phrases,       \* what a user may have to verify
  ValidPhrases,  \* the mnemonics of the shorter count
  InputWords,    \* what is typed, the normalised forms
  Decoys,        \* decoy words of the grid, in a sequence
  MaxCopies,     \* bound: clicks on copy
  MaxGrids,      \* bound: grids built
  MaxInputs      \* bound: words typed and counts changed

ASSUME SeedScreensAssumption ==
  /\ ValidPhrases # {} /\ \A phrase \in ValidPhrases : Len(phrase) \in Nat \ {0}
  /\ MaxCopies \in Nat

(* The decoys are the words of the list that the phrase does not have. *)
ASSUME DecoysAreNotInPhrases ==
  /\ Decoys \in Seq({Decoys[k] : k \in DOMAIN Decoys})
  /\ \A phrase \in Phrases :
       /\ phrase \in Seq({phrase[k] : k \in DOMAIN phrase})
       /\ \A k \in DOMAIN phrase, d \in DOMAIN Decoys : Decoys[d] # phrase[k]

VARIABLES display, verify, import

(***************************************************************************)
(* Display                                                                 *)
(***************************************************************************)
DisplayInit ==
  \E available \in BOOLEAN :   \* clipboardWriteAvailable()
    display = [status |-> "hidden", copyCount |-> 0, copyError |-> "none",
               available |-> available,
               copying |-> 0,                            \* writes in flight
               clicks |-> 0, written |-> 0, allowed |-> 0,
               overlapped |-> FALSE]                     \* history

(* Mutant: a copy leaves the phrase revealed. *)
UncountedCopy(d) == [d EXCEPT !.copyCount = 0]

(* The reducer's COPY: nothing unless revealed, and not copied before. *)
CopyEvent(d) ==
  IF d.status = "revealed" /\ d.copyCount = 0
  THEN [d EXCEPT !.status = "copied", !.copyCount = 1] ELSE d

Reveal ==
  /\ display.status = "hidden"
  /\ display' = [display EXCEPT !.status = "revealed"]

(* handleCopy up to its await; without a clipboard it throws at once.      *)
ClickCopy ==
  /\ display.status = "revealed" /\ display.copyCount = 0
  /\ display.copyError # "permanent" /\ display.clicks < MaxCopies
  /\ display' = IF display.available
       THEN [display EXCEPT !.clicks = @ + 1, !.copying = @ + 1,
               !.overlapped = @ \/ display.copying > 0]
       ELSE [display EXCEPT !.clicks = @ + 1, !.copyError = "permanent"]

(* The clipboard answers; the handler goes on whatever the screen is now. *)
Copied ==
  /\ display.copying > 0
  /\ display' = [CopyEvent(display) EXCEPT !.copying = @ - 1, !.copyError = "none",
                   !.written = @ + 1, !.allowed = @ + 1]

CopyFails ==
  /\ display.copying > 0
  /\ display' = [display EXCEPT !.copying = @ - 1, !.copyError = "transient"]

Dismiss ==
  /\ display.status \in {"revealed", "copied"}
  /\ display' = [display EXCEPT !.status = "dismissed"]

DisplayNext == Reveal \/ ClickCopy \/ Copied \/ CopyFails \/ Dismiss

DisplaySpec == DisplayInit /\ [][DisplayNext]_display

(***************************************************************************)
(* Verify                                                                  *)
(***************************************************************************)
Rearrangements(s) ==
  {[k \in DOMAIN s |-> s[p[k]]] : p \in {f \in [DOMAIN s -> DOMAIN s] :
     \A i, j \in DOMAIN s : i # j => f[i] # f[j]}}

(* The n-th occurrence of a word in the phrase takes its n-th cell.        *)
CorrectIndices(words, phrase) ==
  [k \in DOMAIN phrase |-> CHOOSE c \in DOMAIN words :
     /\ words[c] = phrase[k]
     /\ Cardinality({d \in 1..c : words[d] = phrase[k]})
          = Cardinality({j \in 1..k : phrase[j] = phrase[k]})]

(* buildVerificationGrid: the phrase shuffled, then the decoys, which are  *)
(* words that the phrase does not have.                                    *)
Grids(phrase) == {shuffled \o Decoys : shuffled \in Rearrangements(phrase)}

Grid(phrase, words) ==
  [phrase |-> phrase, words |-> words, correct |-> CorrectIndices(words, phrase),
   selected |-> <<>>, status |-> "collecting", attempts |-> 0]

VerifyInit ==
  \E phrase \in Phrases, driver \in {"component", "headless"} :
    \E words \in Grids(phrase) :
      verify = [grid |-> Grid(phrase, words), driver |-> driver, checking |-> FALSE,
                notified |-> FALSE, grids |-> 1, verdicts |-> <<>>]

Clicked == {verify.grid.selected[k] : k \in DOMAIN verify.grid.selected}
Full == Len(verify.grid.selected) = Len(verify.grid.correct)

(* Mutant: the selection is compared as a set. *)
SameCells(grid, selected) ==
  {selected[k] : k \in DOMAIN selected} = {grid.correct[k] : k \in DOMAIN grid.correct}

IsGridSelectionCorrect(grid, selected) == selected = grid.correct

(* SELECT; the component refuses a click once it has enough, and checks    *)
(* in the effect of the last.                                              *)
Select(cell) ==
  /\ verify.grid.status = "collecting"
  /\ cell \in DOMAIN verify.grid.words \ Clicked
  /\ verify.driver = "component" => ~Full
  /\ LET g == [verify.grid EXCEPT !.selected = Append(@, cell)] IN
     verify' = [verify EXCEPT !.grid = g,
       !.checking = verify.driver = "component" /\ Len(g.selected) = Len(g.correct)]

Deselect(cell) ==
  /\ verify.driver = "headless" /\ verify.grid.status = "collecting"
  /\ \E k \in DOMAIN verify.grid.selected :
       /\ verify.grid.selected[k] = cell
       /\ verify' = [verify EXCEPT !.grid.selected =
                       SubSeq(@, 1, k - 1) \o SubSeq(@, k + 1, Len(@))]

(* CHECK, and the effect of its commit, which notifies once. *)
Check ==
  /\ IF verify.driver = "component" THEN verify.checking
     ELSE verify.grid.status = "collecting" /\ Full
  /\ LET status == IF IsGridSelectionCorrect(verify.grid, verify.grid.selected)
                   THEN "correct" ELSE "incorrect"
     IN verify' = [verify EXCEPT !.checking = FALSE,
          !.grid.status = status, !.grid.attempts = @ + 1,
          !.notified = verify.driver = "component",
          !.verdicts = IF verify.driver = "component" /\ ~verify.notified
                       THEN Append(@, [status |-> status, selected |-> verify.grid.selected,
                                       attempts |-> verify.grid.attempts + 1])
                       ELSE @]

(* handleRetry, or RESET by a headless driver at any time. *)
Retry ==
  /\ verify.driver = "component" => verify.grid.status = "incorrect"
  /\ verify.grids < MaxGrids
  /\ \E words \in Grids(verify.grid.phrase) :
       verify' = [verify EXCEPT !.grid = Grid(@.phrase, words), !.notified = FALSE,
                    !.grids = @ + 1]

VerifyNext ==
  \/ \E cell \in 1..(Len(verify.grid.words)) : Select(cell) \/ Deselect(cell)
  \/ Check \/ Retry

VerifySpec == VerifyInit /\ [][VerifyNext]_verify

(***************************************************************************)
(* Import                                                                  *)
(***************************************************************************)
Short == Len(CHOOSE p \in ValidPhrases : TRUE)

NormalizeSeedPhrase(words) == SelectSeq(words, LAMBDA w : w # Blank)

ValidateSeedPhrase(words) == NormalizeSeedPhrase(words) \in ValidPhrases

(* The mount effect has dispatched the first CHECK. *)
Entering(count) == [k \in 1..count |-> NoWord]

ImportInit ==
  import = [words |-> Entering(Short), status |-> "entering", checking |-> TRUE,
            prevStatus |-> "entering", lastImported |-> <<>>, imported |-> <<>>, inputs |-> 0]

(* SET_WORD, or INIT with the other count; the effects of the commit       *)
(* dispatch a CHECK and note the status.                                   *)
WordsChange(words) ==
  /\ import.inputs < MaxInputs
  /\ import' = [import EXCEPT !.words = words, !.status = "entering",
                  !.prevStatus = "entering", !.checking = TRUE, !.inputs = @ + 1]

SetWord(position, word) ==
  /\ position \in DOMAIN import.words
  /\ WordsChange([import.words EXCEPT ![position] = word])

CountChange == \E count \in {Short, 2 * Short} :
  count # Len(import.words) /\ WordsChange(Entering(count))

(* Mutant: only the transition counts, not what was imported last. *)
NewlyValid(im, status) == status = "valid" /\ im.prevStatus # "valid"

(* The phrase became valid, and it is not the one imported last. *)
Reports(im, status) ==
  status = "valid" /\ im.prevStatus # "valid" /\ im.lastImported # im.words

(* The reducer's CHECK: a field may be blank, but not untouched. *)
Checked(words) ==
  IF (\A k \in DOMAIN words : words[k] # NoWord) /\ ValidateSeedPhrase(words)
  THEN "valid" ELSE "invalid"

CheckWords ==
  /\ import.checking
  /\ LET status == Checked(import.words)
     IN import' = [import EXCEPT !.status = status, !.prevStatus = status,
          !.checking = FALSE,
          !.lastImported = IF Reports(import, status) THEN import.words ELSE @,
          !.imported = IF Reports(import, status) THEN Append(@, import.words) ELSE @]

ImportNext ==
  \/ \E position \in 1..Len(import.words), word \in InputWords \cup {Blank} :
       SetWord(position, word)
  \/ CountChange \/ CheckWords

ImportSpec == ImportInit /\ [][ImportNext]_import

(***************************************************************************)
(* Properties                                                              *)
(***************************************************************************)
(* If clicks on copy do not overlap, the phrase is written to the          *)
(* clipboard once at most, a failed write can be tried again, and          *)
(* onCopyAllowed is called for what was written, dismissal in between      *)
(* included.                                                               *)
CopiedOnce ==
  ~display.overlapped =>
    /\ display.written <= 1 /\ display.allowed = display.written
    /\ display.written = 1 => display.status \in {"copied", "dismissed"}
    /\ display.status = "copied" => display.written = 1 /\ display.copying = 0

(* Each grid has at most one verdict, and it is right: onVerified only for *)
(* cells that spell the phrase in order, onFailed never for a phrase of    *)
(* distinct words whose cells spell it.  A grid can always be solved.      *)
VerdictIsRight ==
  LET Spells(cells) == [k \in DOMAIN cells |-> verify.grid.words[cells[k]]] = verify.grid.phrase
      g == verify.grid
  IN /\ g.status = "correct" => Spells(g.selected)
     /\ g.status = "incorrect" /\ Cardinality({g.phrase[k] : k \in DOMAIN g.phrase}) = Len(g.phrase)
          => ~Spells(g.selected)
     /\ Spells(g.correct) /\ Cardinality({g.correct[k] : k \in DOMAIN g.correct}) = Len(g.phrase)
     /\ Len(verify.verdicts) <= verify.grids
     /\ verify.driver = "component" /\ verify.grid.status # "collecting" =>
          Len(verify.verdicts) = verify.grids

(* When its effects have run, the import screen has reported what it shows *)
(* if that is valid, last of all, and never the same twice in a row or a   *)
(* phrase that is no mnemonic.  What it reports may have blanks: twelve    *)
(* words and twelve erased fields make a valid screen of twenty-four.      *)
ValidIsReported ==
  /\ ~import.checking /\ Checked(import.words) = "valid" =>
       /\ import.imported # <<>>
       /\ import.imported[Len(import.imported)] = import.words
  /\ \A k \in DOMAIN import.imported :
       /\ NormalizeSeedPhrase(import.imported[k]) \in ValidPhrases
       /\ k > 1 => import.imported[k] # import.imported[k - 1]
=============================================================================
