------------------------- MODULE SeedScreens_proofs -------------------------
(***************************************************************************)
(* The three screens, for any phrases, shuffles, decoys, valid phrases and *)
(* any number of clicks and inputs.                                        *)
(***************************************************************************)
EXTENDS SeedScreens, FiniteSetTheorems, FunctionTheorems, SequenceTheorems,
        WellFoundedInduction, TLAPS

(***************************************************************************)
(* Display                                                                 *)
(***************************************************************************)
DisplayRecord ==
  [status : {"hidden", "revealed", "copied", "dismissed"}, copyCount : {0, 1},
   copyError : {"none", "transient", "permanent"}, available : BOOLEAN,
   copying : Nat, clicks : Nat, written : Nat, allowed : Nat, overlapped : BOOLEAN]

(* What a display in each status has written and may yet write. *)
DisplayInv ==
  /\ display \in DisplayRecord
  /\ display.allowed = display.written
  /\ display.status = "hidden" => display.copying = 0
  /\ display.status \in {"hidden", "revealed"} => display.copyCount = 0 /\ display.written = 0
  /\ ~display.overlapped => display.copying + display.written <= 1
  /\ ~display.overlapped /\ display.status = "copied" => display.written = 1

LEMMA DisplayInitially == DisplayInit => DisplayInv
BY DEF DisplayInit, DisplayInv, DisplayRecord

LEMMA DisplayStep == DisplayInv /\ [DisplayNext]_display => DisplayInv'
<1> SUFFICES ASSUME DisplayInv, [DisplayNext]_display PROVE DisplayInv'
  OBVIOUS
<1>0. /\ display \in DisplayRecord /\ display.copying \in Nat /\ display.clicks \in Nat
      /\ display.written \in Nat /\ display.allowed \in Nat /\ display.overlapped \in BOOLEAN
      /\ display.status \in {"hidden", "revealed", "copied", "dismissed"}
  BY DEF DisplayInv, DisplayRecord
<1>1. CASE Reveal
  <2>1. /\ display' \in DisplayRecord /\ display'.status = "revealed"
        /\ display'.copying = display.copying /\ display'.written = display.written
        /\ display'.allowed = display.allowed /\ display'.copyCount = display.copyCount
        /\ display'.overlapped = display.overlapped
    BY <1>0, <1>1 DEF Reveal, DisplayRecord
  <2> QED BY <1>1, <2>1 DEF DisplayInv, Reveal
<1>2. CASE ClickCopy
  <2>1. CASE display.available
    <3>1. PICK p \in Nat : p = display.clicks + 1
      BY <1>0
    <3>2. PICK q \in Nat : q = display.copying + 1
      BY <1>0
    <3>3. PICK o \in BOOLEAN : o = (display.overlapped \/ display.copying > 0)
      <4>1. (display.overlapped \/ display.copying > 0) \in BOOLEAN
        BY Zenon
      <4> QED BY <4>1, Zenon
    <3>4. /\ p = display.clicks + 1 /\ q = display.copying + 1
          /\ o = (display.overlapped \/ display.copying > 0)
      BY <3>1, <3>2, <3>3
    <3>5. display' = [display EXCEPT !.clicks = p, !.copying = q, !.overlapped = o]
      BY <1>2, <2>1, <3>4 DEF ClickCopy
    <3>6. /\ display' \in DisplayRecord /\ display'.status = display.status
          /\ display'.copying = q /\ display'.written = display.written
          /\ display'.allowed = display.allowed /\ display'.copyCount = display.copyCount
          /\ display'.overlapped = o
      BY <1>0, <3>4, <3>5 DEF DisplayRecord
    <3>7. display.status = "revealed"
      BY <1>2 DEF ClickCopy
    <3>8. CASE o
      <4>1. display'.overlapped
        BY <3>6, <3>8
      <4>2. /\ display'.status = "revealed" /\ display'.copyCount = 0
            /\ display'.written = 0 /\ display'.allowed = 0
        BY <3>6, <3>7 DEF DisplayInv
      <4>3. display'.status # "hidden" /\ display'.status # "copied"
        BY <4>2
      <4>4. display'.allowed = display'.written
        BY <4>2
      <4> QED BY <3>6, <4>1, <4>2, <4>3, <4>4, Zenon DEF DisplayInv
    <3>9. CASE ~o
      <4>1. ~display.overlapped /\ ~(display.copying > 0)
        BY <3>3, <3>9, Zenon
      <4>2. display.copying = 0 /\ q = 1
        BY <1>0, <3>2, <4>1
      <4> QED BY <1>0, <3>6, <3>7, <4>1, <4>2 DEF DisplayInv
    <3> QED BY <3>8, <3>9
  <2>2. CASE ~display.available
    <3>1. PICK p \in Nat : p = display.clicks + 1
      BY <1>0
    <3>2. display' = [display EXCEPT !.clicks = p, !.copyError = "permanent"]
      BY <1>2, <2>2, <3>1 DEF ClickCopy
    <3>3. /\ display' \in DisplayRecord /\ display'.status = display.status
          /\ display'.copying = display.copying /\ display'.written = display.written
          /\ display'.allowed = display.allowed /\ display'.copyCount = display.copyCount
          /\ display'.overlapped = display.overlapped
      BY <1>0, <3>1, <3>2 DEF DisplayRecord
    <3> QED BY <3>3 DEF DisplayInv
  <2> QED BY <2>1, <2>2
<1>3. CASE Copied
  <2> DEFINE d == CopyEvent(display)
  <2>1. PICK p \in Nat, q \in Nat, r \in Nat :
          /\ p = display.copying - 1 /\ q = display.written + 1 /\ r = display.allowed + 1
    BY <1>0, <1>3 DEF Copied
  <2>2. /\ d \in DisplayRecord /\ d.copying = display.copying /\ d.written = display.written
        /\ d.allowed = display.allowed /\ d.overlapped = display.overlapped
        /\ d.status = IF display.status = "revealed" /\ display.copyCount = 0
                      THEN "copied" ELSE display.status
    <3>1. CASE display.status = "revealed" /\ display.copyCount = 0
      BY <1>0, <3>1 DEF CopyEvent, DisplayRecord
    <3>2. CASE ~(display.status = "revealed" /\ display.copyCount = 0)
      BY <1>0, <3>2 DEF CopyEvent
    <3> QED BY <3>1, <3>2
  <2>3. display' = [d EXCEPT !.copying = p, !.copyError = "none", !.written = q, !.allowed = r]
    BY <1>3, <2>1, <2>2 DEF Copied
  <2> HIDE DEF d
  <2>4. /\ display' \in DisplayRecord
        /\ display'.copying = p /\ display'.written = q /\ display'.allowed = r
        /\ display'.overlapped = display.overlapped /\ display'.status = d.status
    BY <2>1, <2>2, <2>3 DEF DisplayRecord
  <2>5. d.status \in {"copied", "dismissed"}
    BY <1>0, <1>3, <2>2 DEF DisplayInv, Copied
  <2> QED BY <1>0, <2>1, <2>4, <2>5 DEF DisplayInv
<1>4. CASE CopyFails
  <2>1. PICK p \in Nat : p = display.copying - 1
    BY <1>0, <1>4 DEF CopyFails
  <2>2. display' = [display EXCEPT !.copying = p, !.copyError = "transient"]
    BY <1>4, <2>1 DEF CopyFails
  <2>3. /\ display' \in DisplayRecord /\ display'.status = display.status
        /\ display'.copying = p /\ display'.written = display.written
        /\ display'.allowed = display.allowed /\ display'.copyCount = display.copyCount
        /\ display'.overlapped = display.overlapped
    BY <1>0, <2>1, <2>2 DEF DisplayRecord
  <2> QED BY <1>0, <1>4, <2>1, <2>3 DEF DisplayInv, CopyFails
<1>5. CASE Dismiss
  <2>1. /\ display' \in DisplayRecord /\ display'.status = "dismissed"
        /\ display'.copying = display.copying /\ display'.written = display.written
        /\ display'.allowed = display.allowed /\ display'.copyCount = display.copyCount
        /\ display'.overlapped = display.overlapped
    BY <1>0, <1>5 DEF Dismiss, DisplayRecord
  <2> QED BY <2>1 DEF DisplayInv
<1>6. CASE UNCHANGED display
  BY <1>6 DEF DisplayInv
<1> QED BY <1>1, <1>2, <1>3, <1>4, <1>5, <1>6 DEF DisplayNext

(* SeedPhraseDisplay writes the phrase to the clipboard once, and says so, *)
(* if clicks do not overlap: a copy that was answered ends the revealed    *)
(* status, and a dismissed screen takes no click.                          *)
THEOREM DisplayCorrect == DisplaySpec => []CopiedOnce
<1>1. DisplayInv => CopiedOnce
  BY DEF DisplayInv, DisplayRecord, CopiedOnce
<1> QED BY DisplayInitially, DisplayStep, <1>1, PTL DEF DisplaySpec

(***************************************************************************)
(* Import                                                                  *)
(***************************************************************************)
Words == InputWords \cup {Blank, NoWord}
Screen == Seq(Words) \ {<<>>}

ImportRecord ==
  [words : Screen, status : {"entering", "valid", "invalid"}, checking : BOOLEAN,
   prevStatus : {"entering", "valid", "invalid"}, lastImported : Seq(Words),
   imported : Seq(Screen), inputs : Nat]

(* A change is checked before the next effect; what was imported last is   *)
(* the last report.                                                        *)
ImportInv ==
  /\ import \in ImportRecord
  /\ import.checking => import.prevStatus = "entering"
  /\ import.lastImported = IF import.imported = <<>> THEN <<>>
                           ELSE import.imported[Len(import.imported)]
  /\ ValidIsReported

LEMMA ShortProperties == Short \in Nat \ {0}
BY SeedScreensAssumption DEF Short

LEMMA EnteringProperties ==
  ASSUME NEW count \in Nat \ {0}
  PROVE  Entering(count) \in Screen
BY DEF Entering, Screen, Words

LEMMA ImportInitially == ImportInit => ImportInv
<1> SUFFICES ASSUME ImportInit PROVE ImportInv
  OBVIOUS
<1>1. Entering(Short) \in Screen
  BY ShortProperties, EnteringProperties
<1>2. import \in ImportRecord /\ import.checking /\ import.prevStatus = "entering"
      /\ import.imported = <<>> /\ import.lastImported = <<>>
  BY <1>1 DEF ImportInit, ImportRecord
<1> QED BY <1>2 DEF ImportInv, ValidIsReported

LEMMA WordsChangeKeeps ==
  ASSUME ImportInv, NEW words \in Screen, WordsChange(words)
  PROVE  ImportInv'
<1>1. import' = [import EXCEPT !.words = words, !.status = "entering",
                  !.prevStatus = "entering", !.checking = TRUE, !.inputs = @ + 1]
  BY DEF WordsChange
<1>2. import \in ImportRecord /\ import.inputs \in Nat
  BY DEF ImportInv, ImportRecord
<1>3. PICK p \in Nat : p = import.inputs + 1
  BY <1>2
<1>4. import' = [import EXCEPT !.words = words, !.status = "entering",
                  !.prevStatus = "entering", !.checking = TRUE, !.inputs = p]
  BY <1>1, <1>3
<1>5. /\ import' \in ImportRecord /\ import'.checking /\ import'.prevStatus = "entering"
      /\ import'.imported = import.imported /\ import'.lastImported = import.lastImported
  BY <1>2, <1>4 DEF ImportRecord
<1> QED BY <1>5 DEF ImportInv, ValidIsReported

LEMMA CheckWordsKeeps ==
  ASSUME ImportInv, CheckWords
  PROVE  ImportInv'
<1> DEFINE words == import.words
           status == Checked(words)
           reports == Reports(import, status)
<1>1. import.checking /\ import' = [import EXCEPT !.status = status, !.prevStatus = status,
          !.checking = FALSE,
          !.lastImported = IF reports THEN words ELSE @,
          !.imported = IF reports THEN Append(@, words) ELSE @]
  BY DEF CheckWords
<1>2. status \in {"valid", "invalid"}
  BY DEF Checked
<1>3. reports <=> status = "valid" /\ import.lastImported # words
  BY <1>1 DEF Reports, ImportInv
<1>4. status = "valid" => NormalizeSeedPhrase(words) \in ValidPhrases
  BY DEF Checked, ValidateSeedPhrase
<1> HIDE DEF status, reports
<1>5. /\ words \in Screen /\ import.imported \in Seq(Screen) /\ import.lastImported \in Seq(Words)
      /\ words \in Seq(Words) /\ words # <<>>
  BY DEF ImportInv, ImportRecord, Screen
<1> HIDE DEF words
<1>6. CASE reports
  <2>1. /\ import' \in ImportRecord /\ ~import'.checking /\ import'.words = words
        /\ import'.lastImported = words /\ import'.imported = Append(import.imported, words)
    <3>1. Append(import.imported, words) \in Seq(Screen)
      BY <1>5, AppendProperties
    <3>2. PICK longer \in Seq(Screen) : longer = Append(import.imported, words)
      BY <3>1, Zenon
    <3>3. import' = [import EXCEPT !.status = status, !.prevStatus = status,
            !.checking = FALSE, !.lastImported = words, !.imported = longer]
      BY <1>1, <1>6, <3>2
    <3>4. import \in ImportRecord /\ import.words = words
      BY DEF ImportInv, words
    <3> QED BY <1>2, <1>5, <3>2, <3>3, <3>4 DEF ImportRecord
  <2>2. PICK n : n = Len(import.imported) + 1
    OBVIOUS
  <2>3. /\ import'.imported # <<>> /\ Len(import'.imported) = n /\ import'.imported[n] = words
        /\ DOMAIN import'.imported = 1..n /\ n \in Nat \ {0}
        /\ \A k \in 1..(n - 1) : import'.imported[k] = import.imported[k]
    <3>1. /\ Len(Append(import.imported, words)) = n /\ n \in Nat \ {0}
          /\ Append(import.imported, words)[n] = words
          /\ DOMAIN Append(import.imported, words) = 1..n
          /\ \A k \in 1..(n - 1) : Append(import.imported, words)[k] = import.imported[k]
      BY <1>5, <2>2, AppendProperties
    <3>2. Append(import.imported, words) # <<>>
      BY <3>1
    <3> QED BY <2>1, <3>1, <3>2
  <2>4. \A k \in 1..(n - 1) : /\ NormalizeSeedPhrase(import.imported[k]) \in ValidPhrases
                              /\ k > 1 => import.imported[k] # import.imported[k - 1]
    <3>1. DOMAIN import.imported = 1..(n - 1)
      BY <1>5, <2>2
    <3> QED BY <3>1 DEF ImportInv, ValidIsReported
  <2>5. n > 1 => import.imported[n - 1] # words
    BY <1>3, <1>5, <1>6, <2>2 DEF ImportInv
  <2>6. ASSUME NEW k \in 1..n
        PROVE  /\ NormalizeSeedPhrase(import'.imported[k]) \in ValidPhrases
               /\ k > 1 => import'.imported[k] # import'.imported[k - 1]
    <3>1. CASE k = n
      <4>1. n > 1 => n - 1 \in 1..(n - 1)
        BY <2>3
      <4> QED BY <1>3, <1>4, <1>6, <2>3, <2>5, <3>1, <4>1
    <3>2. CASE k # n
      <4>1. k \in 1..(n - 1) /\ (k > 1 => k - 1 \in 1..(n - 1))
        BY <2>3, <3>2
      <4> QED BY <2>3, <2>4, <4>1
    <3> QED BY <3>1, <3>2
  <2>7. ValidIsReported'
    BY <2>1, <2>3, <2>6 DEF ValidIsReported
  <2> QED BY <2>1, <2>3, <2>7 DEF ImportInv
<1>7. CASE ~reports
  <2>1. /\ import' \in ImportRecord /\ ~import'.checking /\ import'.words = words
        /\ import'.lastImported = import.lastImported /\ import'.imported = import.imported
    BY <1>1, <1>2, <1>5, <1>7 DEF ImportInv, ImportRecord, words
  <2>2. status = "valid" => import.imported # <<>>
                            /\ import.imported[Len(import.imported)] = words
    BY <1>3, <1>5, <1>7 DEF ImportInv
  <2>3. Checked(import'.words) = status
    BY <2>1 DEF status
  <2>4. ValidIsReported'
    BY <2>1, <2>2, <2>3 DEF ImportInv, ValidIsReported
  <2> QED BY <2>1, <2>4 DEF ImportInv
<1> QED BY <1>6, <1>7

LEMMA ImportStep == ImportInv /\ [ImportNext]_import => ImportInv'
<1> SUFFICES ASSUME ImportInv, [ImportNext]_import PROVE ImportInv'
  OBVIOUS
<1>1. ASSUME NEW position \in 1..Len(import.words), NEW word \in InputWords \cup {Blank},
             SetWord(position, word)
      PROVE  ImportInv'
  <2>1. import.words \in Seq(Words) /\ import.words # <<>> /\ word \in Words
    BY DEF ImportInv, ImportRecord, Screen, Words
  <2>2. [import.words EXCEPT ![position] = word] \in Screen
    BY <2>1, ExceptSeq DEF Screen
  <2> QED BY <1>1, <2>2, WordsChangeKeeps DEF SetWord
<1>2. CASE CountChange
  <2>1. PICK count \in {Short, 2 * Short} : WordsChange(Entering(count))
    BY <1>2 DEF CountChange
  <2>2. Entering(count) \in Screen
    BY ShortProperties, EnteringProperties
  <2> QED BY <2>1, <2>2, WordsChangeKeeps
<1>3. CASE CheckWords
  BY <1>3, CheckWordsKeeps
<1>4. CASE UNCHANGED import
  BY <1>4 DEF ImportInv, ValidIsReported
<1> QED BY <1>1, <1>2, <1>3, <1>4 DEF ImportNext

(* SeedPhraseImport reports what it shows if that is valid, once: of its   *)
(* conditions, the transition to valid comes with every checked change,    *)
(* and the comparison with the last import only drops a repetition.        *)
THEOREM ImportCorrect == ImportSpec => []ValidIsReported
<1>1. ImportInv => ValidIsReported
  BY DEF ImportInv
<1> QED BY ImportInitially, ImportStep, <1>1, PTL DEF ImportSpec

-----------------------------------------------------------------------------
(***************************************************************************)
(* Verification: cells and occurrences                                     *)
(***************************************************************************)
(* The places up to n at which s has w. *)
Places(s, w, n) == {d \in 1..n : s[d] = w}

LEMMA PlacesAreFinite ==
  ASSUME NEW s, NEW w, NEW n \in Nat
  PROVE  IsFiniteSet(Places(s, w, n)) /\ Cardinality(Places(s, w, n)) \in Nat
<1>1. IsFiniteSet(1..n)
  BY FS_Interval
<1>2. Places(s, w, n) \in SUBSET (1..n)
  BY DEF Places
<1> QED BY <1>1, <1>2, FS_Subset, FS_CardinalityType

(* More of a sequence has no fewer places. *)
LEMMA PlacesGrow ==
  ASSUME NEW s, NEW w, NEW m \in Nat, NEW n \in Nat, m <= n
  PROVE  Cardinality(Places(s, w, m)) <= Cardinality(Places(s, w, n))
<1>1. Places(s, w, m) \in SUBSET Places(s, w, n)
  BY DEF Places
<1> QED BY <1>1, PlacesAreFinite, FS_Subset

(* Counting along a sequence, no number is skipped: the n-th place of a    *)
(* word is the first at which n are counted.                               *)
LEMMA PlaceOfCount ==
  ASSUME NEW s, NEW w, NEW m \in Nat, NEW n \in Nat \ {0},
         n <= Cardinality(Places(s, w, m))
  PROVE  \E c \in 1..m : s[c] = w /\ Cardinality(Places(s, w, c)) = n
<1> DEFINE Enough == {c \in 0..m : n <= Cardinality(Places(s, w, c))}
<1>1. Enough \subseteq Nat /\ m \in Enough
  OBVIOUS
<1>2. PICK c \in Enough : \A y \in Enough : ~(<<y, c>> \in OpToRel(<, Nat))
  BY <1>1, NatLessThanWellFounded, WFMin
<1>3. \A y \in Enough : ~(y < c)
  BY <1>1, <1>2 DEF OpToRel
<1>4. c \in 0..m /\ n <= Cardinality(Places(s, w, c))
  BY <1>2
<1>5. c # 0
  <2>1. Places(s, w, 0) = {}
    BY DEF Places
  <2> QED BY <1>4, <2>1, FS_EmptySet
<1>6. PICK b \in 0..m : c = b + 1
  <2>1. c - 1 \in 0..m /\ c = (c - 1) + 1
    BY <1>4, <1>5
  <2> QED BY <2>1
<1>7. b \in Nat /\ ~(n <= Cardinality(Places(s, w, b)))
  BY <1>3, <1>6
<1>8. IsFiniteSet(Places(s, w, b)) /\ Cardinality(Places(s, w, b)) \in Nat
  BY <1>7, PlacesAreFinite
<1>9. CASE s[c] = w
  <2>1. Places(s, w, c) = Places(s, w, b) \cup {c} /\ c \notin Places(s, w, b)
    BY <1>6, <1>7, <1>9 DEF Places
  <2>2. Cardinality(Places(s, w, c)) = Cardinality(Places(s, w, b)) + 1
    BY <1>8, <2>1, FS_AddElement
  <2> QED BY <1>4, <1>5, <1>7, <1>8, <1>9, <2>2
<1>10. CASE s[c] # w
  <2>1. Places(s, w, c) = Places(s, w, b)
    BY <1>6, <1>7, <1>10 DEF Places
  <2> QED BY <1>4, <1>7, <2>1
<1> QED BY <1>9, <1>10

(* What a grid is made of: the words of the phrase, each of its places     *)
(* once, and after them words that it does not have.                       *)
LEMMA GridProperties ==
  ASSUME NEW phrase \in Phrases, NEW words \in Grids(phrase)
  PROVE  /\ Len(phrase) \in Nat /\ DOMAIN phrase = 1..Len(phrase)
         /\ Len(words) \in Nat /\ DOMAIN words = 1..Len(words) /\ Len(phrase) <= Len(words)
         /\ \E p \in [1..Len(phrase) -> 1..Len(phrase)] :
              /\ \A i, j \in 1..Len(phrase) : p[i] = p[j] => i = j
              /\ \A k \in 1..Len(phrase) : words[k] = phrase[p[k]]
         /\ \A c \in 1..Len(words), k \in 1..Len(phrase) :
              words[c] = phrase[k] => c <= Len(phrase)
<1> DEFINE L == Len(phrase)
<1>1. phrase \in Seq({phrase[k] : k \in DOMAIN phrase})
  BY DecoysAreNotInPhrases
<1>2. L \in Nat /\ DOMAIN phrase = 1..L
  BY <1>1, LenProperties
<1>3. PICK shuffled \in Rearrangements(phrase) : words = shuffled \o Decoys
  BY DEF Grids
<1> DEFINE Onto(q) == [k \in DOMAIN phrase |-> phrase[q[k]]]
<1>4. PICK p \in [1..L -> 1..L] : /\ \A i, j \in 1..L : p[i] = p[j] => i = j
                                  /\ shuffled = [k \in 1..L |-> phrase[p[k]]]
  <2>1. PICK p \in {f \in [DOMAIN phrase -> DOMAIN phrase] :
                      \A i, j \in DOMAIN phrase : i # j => f[i] # f[j]} :
          shuffled = Onto(p)
    BY <1>3 DEF Rearrangements
  <2>2. p \in [1..L -> 1..L] /\ \A i, j \in 1..L : p[i] = p[j] => i = j
    BY <1>2, <2>1
  <2> QED BY <1>2, <2>1, <2>2
<1>5. shuffled \in Seq({phrase[k] : k \in DOMAIN phrase}) /\ Len(shuffled) = L
  BY <1>2, <1>4
<1>6. Decoys \in Seq({Decoys[k] : k \in DOMAIN Decoys})
  BY DecoysAreNotInPhrases
<1>7. Len(Decoys) \in Nat /\ DOMAIN Decoys = 1..Len(Decoys)
  BY <1>6, LenProperties
<1>8. /\ Len(words) = L + Len(Decoys) /\ DOMAIN words = 1..Len(words)
      /\ \A k \in 1..L : words[k] = phrase[p[k]]
      /\ \A k \in (L + 1)..Len(words) : words[k] = Decoys[k - L]
  BY <1>2, <1>3, <1>4, <1>5, <1>6, <1>7
<1>9. \A c \in 1..Len(words), k \in 1..L : words[c] = phrase[k] => c <= L
  <2> SUFFICES ASSUME NEW c \in 1..Len(words), NEW k \in 1..L, words[c] = phrase[k], ~(c <= L)
               PROVE  FALSE
    OBVIOUS
  <2>1. c \in (L + 1)..Len(words) /\ c - L \in DOMAIN Decoys
    BY <1>2, <1>7, <1>8
  <2>2. Decoys[c - L] = phrase[k]
    BY <1>8, <2>1
  <2> QED BY <1>2, <2>1, <2>2, DecoysAreNotInPhrases
<1>10. Len(words) \in Nat /\ L <= Len(words)
  BY <1>2, <1>7, <1>8
<1>11. \E q \in [1..L -> 1..L] : /\ \A i, j \in 1..L : q[i] = q[j] => i = j
                                 /\ \A k \in 1..L : words[k] = phrase[q[k]]
  <2>1. \A k \in 1..L : words[k] = phrase[p[k]]
    BY <1>8
  <2> QED BY <1>4, <2>1
<1> QED BY <1>2, <1>8, <1>9, <1>10, <1>11

(* A grid has a word of the phrase as often as the phrase. *)
LEMMA GridHasAll ==
  ASSUME NEW phrase \in Phrases, NEW words \in Grids(phrase), NEW w
  PROVE  Cardinality(Places(phrase, w, Len(phrase))) <= Cardinality(Places(words, w, Len(words)))
<1> DEFINE L == Len(phrase)
<1> DEFINE In == Places(phrase, w, L)
<1> DEFINE Shuffled == Places(words, w, L)
<1>1. /\ L \in Nat /\ Len(words) \in Nat /\ L <= Len(words)
      /\ \E p \in [1..L -> 1..L] : /\ \A i, j \in 1..L : p[i] = p[j] => i = j
                                   /\ \A k \in 1..L : words[k] = phrase[p[k]]
  BY GridProperties
<1>2. PICK p \in [1..L -> 1..L] : /\ \A i, j \in 1..L : p[i] = p[j] => i = j
                                  /\ \A k \in 1..L : words[k] = phrase[p[k]]
  BY <1>1
<1>3. \A t \in 1..L : \E k \in 1..L : p[k] = t
  <2>1. IsFiniteSet(1..L)
    BY <1>1, FS_Interval
  <2>2. p \in Injection(1..L, 1..L)
    BY <1>2, Fun_IsInj
  <2>3. p \in Surjection(1..L, 1..L)
    BY <2>1, <2>2, FS_Injection
  <2> QED BY <2>3 DEF Surjection
<1>4. PICK f : f = [k \in Shuffled |-> p[k]]
  OBVIOUS
<1>5. f \in [Shuffled -> In] /\ \A t \in In : \E k \in Shuffled : f[k] = t
  <2>1. \A k \in Shuffled : k \in 1..L /\ f[k] = p[k] /\ p[k] \in In
    BY <1>2, <1>4 DEF Places
  <2>2. \A t \in In : \E k \in Shuffled : p[k] = t
    <3> SUFFICES ASSUME NEW t \in In PROVE \E k \in Shuffled : p[k] = t
      OBVIOUS
    <3>1. t \in 1..L /\ phrase[t] = w
      BY DEF Places
    <3>2. PICK k \in 1..L : p[k] = t
      BY <1>3, <3>1
    <3>3. k \in Shuffled
      BY <1>2, <3>1, <3>2 DEF Places
    <3> QED BY <3>2, <3>3
  <2> QED BY <1>4, <2>1, <2>2
<1>6. f \in Surjection(Shuffled, In)
  BY <1>5, Fun_IsSurj
<1>7. Cardinality(In) <= Cardinality(Shuffled)
  BY <1>1, <1>6, PlacesAreFinite, FS_Surjection
<1>8. Cardinality(Shuffled) <= Cardinality(Places(words, w, Len(words)))
  BY <1>1, PlacesGrow
<1> QED BY <1>1, <1>7, <1>8, PlacesAreFinite

(* The cells of the phrase: each spells its word, with as many cells of    *)
(* that word up to it as there are occurrences up to its place.            *)
LEMMA CorrectCells ==
  ASSUME NEW phrase \in Phrases, NEW words \in Grids(phrase), NEW correct,
         correct = CorrectIndices(words, phrase)
  PROVE  /\ correct \in [1..Len(phrase) -> 1..Len(words)]
         /\ \A k \in 1..Len(phrase) :
              /\ words[correct[k]] = phrase[k]
              /\ Cardinality(Places(words, phrase[k], correct[k]))
                   = Cardinality(Places(phrase, phrase[k], k))
<1> DEFINE L == Len(phrase)
<1> DEFINE Is(c, k) == /\ words[c] = phrase[k]
                       /\ Cardinality(Places(words, phrase[k], c))
                            = Cardinality(Places(phrase, phrase[k], k))
<1>1. /\ L \in Nat /\ DOMAIN phrase = 1..L
      /\ Len(words) \in Nat /\ DOMAIN words = 1..Len(words)
  BY GridProperties
<1>2. correct = [k \in DOMAIN phrase |-> CHOOSE c \in DOMAIN words : Is(c, k)]
  BY DEF CorrectIndices, Places
<1>3. ASSUME NEW k \in 1..L PROVE \E c \in 1..Len(words) : Is(c, k)
  <2>1. PICK w : w = phrase[k]
    OBVIOUS
  <2>2. PICK n : n = Cardinality(Places(phrase, w, k))
    OBVIOUS
  <2>3. k \in Nat /\ k <= L
    BY <1>1, <1>3
  <2>4. n \in Nat /\ n # 0
    <3>1. IsFiniteSet(Places(phrase, w, k)) /\ n \in Nat
      BY <2>2, <2>3, PlacesAreFinite
    <3>2. k \in Places(phrase, w, k)
      BY <1>3, <2>1 DEF Places
    <3> QED BY <2>2, <3>1, <3>2, FS_EmptySet
  <2>5. n <= Cardinality(Places(phrase, w, L))
    BY <1>1, <2>2, <2>3, PlacesGrow
  <2>6. Cardinality(Places(phrase, w, L)) <= Cardinality(Places(words, w, Len(words)))
    BY GridHasAll
  <2>7. /\ Cardinality(Places(phrase, w, L)) \in Nat
        /\ Cardinality(Places(words, w, Len(words))) \in Nat
    BY <1>1, PlacesAreFinite
  <2>8. n <= Cardinality(Places(words, w, Len(words)))
    BY <2>4, <2>5, <2>6, <2>7
  <2>9. \E c \in 1..Len(words) : words[c] = w /\ Cardinality(Places(words, w, c)) = n
    BY <1>1, <2>4, <2>8, PlaceOfCount
  <2> QED BY <2>1, <2>2, <2>9
<1> HIDE DEF Is
<1>4. ASSUME NEW k \in 1..L PROVE correct[k] \in 1..Len(words) /\ Is(correct[k], k)
  <2>1. correct[k] = CHOOSE c \in DOMAIN words : Is(c, k)
    BY <1>1, <1>2, <1>4
  <2>2. \E c \in DOMAIN words : Is(c, k)
    BY <1>1, <1>3, <1>4
  <2>3. correct[k] \in DOMAIN words /\ Is(correct[k], k)
    BY <2>1, <2>2, Zenon
  <2> QED BY <1>1, <2>3
<1>5. correct \in [1..L -> 1..Len(words)]
  BY <1>1, <1>2, <1>4
<1> QED BY <1>4, <1>5 DEF Is

(* No two places have the same cell. *)
LEMMA CellsAreDistinct ==
  ASSUME NEW phrase \in Phrases, NEW words \in Grids(phrase), NEW correct,
         correct = CorrectIndices(words, phrase)
  PROVE  \A i, j \in 1..Len(phrase) : correct[i] = correct[j] => i = j
<1>1. Len(phrase) \in Nat
  BY GridProperties
<1>2. ASSUME NEW i \in 1..Len(phrase), NEW j \in 1..Len(phrase), i < j, correct[i] = correct[j]
      PROVE  FALSE
  <2>1. PICK w : w = phrase[i]
    OBVIOUS
  <2>2. /\ phrase[j] = w
        /\ Cardinality(Places(phrase, w, i)) = Cardinality(Places(phrase, w, j))
    BY <1>2, <2>1, CorrectCells
  <2>3. i \in Nat /\ j \in Nat
    BY <1>1, <1>2
  <2>4. Places(phrase, w, i) \in SUBSET Places(phrase, w, j)
    BY <1>2, <2>3 DEF Places
  <2>5. Places(phrase, w, i) = Places(phrase, w, j)
    BY <2>2, <2>3, <2>4, PlacesAreFinite, FS_Subset
  <2>6. j \in Places(phrase, w, j) /\ j \notin Places(phrase, w, i)
    BY <1>2, <2>2, <2>3 DEF Places
  <2> QED BY <2>5, <2>6
<1>3. \A i, j \in 1..Len(phrase) : i < j \/ j < i \/ i = j
  BY <1>1
<1> QED BY <1>2, <1>3

(* A sequence has as many values as places if no two are equal. *)
LEMMA AllDistinct ==
  ASSUME NEW n \in Nat, NEW Values, NEW s \in [1..n -> Values],
         \A v \in Values : \E k \in 1..n : s[k] = v
  PROVE  Cardinality(Values) = n <=> \A i, j \in 1..n : s[i] = s[j] => i = j
<1>1. IsFiniteSet(1..n) /\ Cardinality(1..n) = n
  BY FS_Interval
<1>2. s \in Surjection(1..n, Values)
  BY Fun_IsSurj
<1>3. Cardinality(Values) = n <=> s \in Injection(1..n, Values)
  BY <1>1, <1>2, FS_Surjection
<1>4. s \in Injection(1..n, Values) <=> \A i, j \in 1..n : s[i] = s[j] => i = j
  BY DEF Injection, IsInjective
<1> QED BY <1>3, <1>4

(* In the grid of a phrase of distinct words, a word of it has one cell,   *)
(* so only the correct cells spell it.                                     *)
LEMMA OneWayToSpell ==
  ASSUME NEW phrase \in Phrases, NEW words \in Grids(phrase), NEW cells,
         cells \in [1..Len(phrase) -> 1..Len(words)],
         \A i, j \in 1..Len(phrase) : phrase[i] = phrase[j] => i = j,
         \A k \in 1..Len(phrase) : words[cells[k]] = phrase[k]
  PROVE  cells = CorrectIndices(words, phrase)
<1>1. PICK correct : correct = CorrectIndices(words, phrase)
  OBVIOUS
<1>2. PICK L \in Nat : L = Len(phrase)
  BY GridProperties
<1>3. PICK p \in [1..L -> 1..L] : /\ \A i, j \in 1..L : p[i] = p[j] => i = j
                                  /\ \A k \in 1..L : words[k] = phrase[p[k]]
  BY <1>2, GridProperties
<1>4. \A c, d \in 1..Len(words), k \in 1..L :
        words[c] = phrase[k] /\ words[d] = phrase[k] => c = d
  <2> SUFFICES ASSUME NEW c \in 1..Len(words), NEW d \in 1..Len(words), NEW k \in 1..L,
                      words[c] = phrase[k], words[d] = phrase[k]
               PROVE  c = d
    OBVIOUS
  <2>1. c \in 1..L /\ d \in 1..L
    BY <1>2, GridProperties
  <2>2. p[c] \in 1..L /\ p[d] \in 1..L
    BY <2>1
  <2>3. phrase[p[c]] = phrase[k] /\ phrase[p[d]] = phrase[k]
    BY <1>3, <2>1
  <2>4. p[c] = k /\ p[d] = k
    BY <1>2, <2>2, <2>3
  <2>5. p[c] = p[d] => c = d
    BY <1>3, <2>1, Zenon
  <2> QED BY <2>4, <2>5
<1>5. /\ correct \in [1..L -> 1..Len(words)]
      /\ \A k \in 1..L : words[correct[k]] = phrase[k]
  BY <1>1, <1>2, CorrectCells
<1>6. ASSUME NEW k \in 1..L PROVE cells[k] = correct[k]
  <2>1. cells[k] \in 1..Len(words) /\ words[cells[k]] = phrase[k]
    BY <1>2, <1>6
  <2>2. correct[k] \in 1..Len(words) /\ words[correct[k]] = phrase[k]
    BY <1>5, <1>6
  <2> QED BY <1>4, <1>6, <2>1, <2>2
<1> QED BY <1>1, <1>2, <1>5, <1>6

(***************************************************************************)
(* Verification: the screen                                                *)
(***************************************************************************)
Statuses == {"collecting", "correct", "incorrect"}

GridRecord ==
  [phrase : Phrases, words : UNION {Grids(phrase) : phrase \in Phrases},
   correct : Seq(Nat), selected : Seq(Nat), status : Statuses, attempts : Nat]

VerdictRecord == [status : Statuses, selected : Seq(Nat), attempts : Nat]

VerifyRecord ==
  [grid : GridRecord, driver : {"component", "headless"}, checking : BOOLEAN,
   notified : BOOLEAN, grids : Nat, verdicts : Seq(VerdictRecord)]

(* A grid is built from its phrase, and its status says how the selection  *)
(* compares to the correct cells.                                          *)
GridInv(g) ==
  /\ g \in GridRecord
  /\ g.words \in Grids(g.phrase)
  /\ g.correct = CorrectIndices(g.words, g.phrase)
  /\ g.selected \in Seq(1..Len(g.words))
  /\ g.status = "correct" => g.selected = g.correct
  /\ g.status = "incorrect" => g.selected # g.correct

(* A component gives one verdict for each grid, and checks none again. *)
VerdictsInv(v) ==
  /\ v.grids # 0
  /\ v.driver = "headless" => v.verdicts = <<>>
  /\ v.driver = "component" =>
       /\ v.checking => v.grid.status = "collecting"
       /\ v.notified = (v.grid.status # "collecting")
       /\ Len(v.verdicts) = IF v.notified THEN v.grids ELSE v.grids - 1

VerifyInv == verify \in VerifyRecord /\ GridInv(verify.grid) /\ VerdictsInv(verify)

(* A grid as it is built. *)
LEMMA NewGrid ==
  ASSUME NEW phrase \in Phrases, NEW words \in Grids(phrase)
  PROVE  GridInv(Grid(phrase, words)) /\ Grid(phrase, words).status = "collecting"
<1>1. PICK correct : correct = CorrectIndices(words, phrase)
  OBVIOUS
<1>2. correct \in [1..Len(phrase) -> 1..Len(words)] /\ Len(phrase) \in Nat
  BY <1>1, CorrectCells, GridProperties
<1>3. correct \in Seq(Nat)
  <2>1. \A k \in 1..Len(words) : k \in Nat
    OBVIOUS
  <2>2. correct \in [1..Len(phrase) -> Nat]
    BY <1>2, <2>1
  <2> QED BY <1>2, <2>2, SeqDef
<1>4. PICK g : g = [phrase |-> phrase, words |-> words, correct |-> correct,
                    selected |-> <<>>, status |-> "collecting", attempts |-> 0]
  OBVIOUS
<1>5. Grid(phrase, words) = g
  BY <1>1, <1>4 DEF Grid
<1>6. words \in UNION {Grids(q) : q \in Phrases}
  OBVIOUS
<1>7. g \in GridRecord
  BY <1>3, <1>4, <1>6 DEF GridRecord, Statuses
<1>8. /\ g.words = words /\ g.phrase = phrase /\ g.correct = correct
      /\ g.selected = <<>> /\ g.status = "collecting"
  BY <1>4
<1>9. g.selected \in Seq(1..Len(words))
  BY <1>8
<1> QED BY <1>1, <1>5, <1>7, <1>8, <1>9 DEF GridInv

LEMMA VerifyInitially == VerifyInit => VerifyInv
<1> SUFFICES ASSUME VerifyInit PROVE VerifyInv
  OBVIOUS
<1>1. PICK phrase \in Phrases, driver \in {"component", "headless"} :
        \E words \in Grids(phrase) :
          verify = [grid |-> Grid(phrase, words), driver |-> driver, checking |-> FALSE,
                    notified |-> FALSE, grids |-> 1, verdicts |-> <<>>]
  BY DEF VerifyInit
<1>2. PICK words \in Grids(phrase) :
        verify = [grid |-> Grid(phrase, words), driver |-> driver, checking |-> FALSE,
                  notified |-> FALSE, grids |-> 1, verdicts |-> <<>>]
  BY <1>1
<1>3. PICK g : g = Grid(phrase, words)
  OBVIOUS
<1>4. GridInv(g) /\ g.status = "collecting"
  BY <1>3, NewGrid
<1>5. g \in GridRecord
  BY <1>4 DEF GridInv
<1>6. verify \in VerifyRecord
  BY <1>2, <1>3, <1>5 DEF VerifyRecord
<1>7. /\ verify.grid = g /\ verify.grids = 1 /\ verify.driver = driver
      /\ verify.checking = FALSE /\ verify.notified = FALSE /\ verify.verdicts = <<>>
  BY <1>2, <1>3
<1>8. VerdictsInv(verify)
  <2>1. Len(verify.verdicts) = verify.grids - 1
    BY <1>7
  <2>2. verify.grid.status = "collecting"
    BY <1>4, <1>7
  <2>3. verify.grids # 0
    BY <1>7
  <2> QED BY <1>7, <2>1, <2>2, <2>3 DEF VerdictsInv
<1> QED BY <1>4, <1>6, <1>7, <1>8 DEF VerifyInv

(* Another selection of cells of the grid, while it is being filled. *)
LEMMA NewSelection ==
  ASSUME NEW g, GridInv(g), g.status = "collecting", NEW s \in Seq(1..Len(g.words)), NEW h,
         h = [g EXCEPT !.selected = s]
  PROVE  GridInv(h) /\ h.status = "collecting"
<1>1. g \in GridRecord
  BY DEF GridInv
<1>2. Len(g.words) \in Nat
  BY GridProperties DEF GridInv, GridRecord
<1>3. s \in Seq(Nat)
  <2>1. (1..Len(g.words)) \subseteq Nat
    BY <1>2
  <2> QED BY <2>1, SeqMonotonic
<1>4. h \in GridRecord
  BY <1>1, <1>3 DEF GridRecord
<1>5. /\ h.phrase = g.phrase /\ h.words = g.words /\ h.correct = g.correct
      /\ h.status = g.status /\ h.selected = s
  BY <1>1 DEF GridRecord
<1> QED BY <1>4, <1>5 DEF GridInv

LEMMA SelectKeeps ==
  ASSUME VerifyInv, NEW cell, Select(cell)
  PROVE  VerifyInv'
<1>1. verify \in VerifyRecord /\ GridInv(verify.grid) /\ VerdictsInv(verify)
  BY DEF VerifyInv
<1>2. PICK g : g = verify.grid
  OBVIOUS
<1>3. GridInv(g) /\ g \in GridRecord /\ g.status = "collecting"
  BY <1>1, <1>2 DEF GridInv, Select
<1>4. cell \in 1..Len(g.words)
  BY <1>2, <1>3, GridProperties DEF GridInv, GridRecord, Select
<1>5. PICK s : s = Append(g.selected, cell)
  OBVIOUS
<1>6. s \in Seq(1..Len(g.words))
  BY <1>3, <1>4, <1>5 DEF GridInv
<1>7. PICK h : h = [g EXCEPT !.selected = s]
  OBVIOUS
<1>8. GridInv(h) /\ h.status = "collecting" /\ h \in GridRecord
  <2>1. GridInv(h) /\ h.status = "collecting"
    BY <1>3, <1>6, <1>7, NewSelection
  <2> QED BY <2>1 DEF GridInv
<1>9. PICK b \in BOOLEAN : b = (verify.driver = "component" /\ Len(h.selected) = Len(h.correct))
  <2>1. (verify.driver = "component" /\ Len(h.selected) = Len(h.correct)) \in BOOLEAN
    BY Zenon
  <2> QED BY <2>1, Zenon
<1>10. verify' = [verify EXCEPT !.grid = h, !.checking = b]
  BY <1>2, <1>5, <1>7, <1>9 DEF Select
<1>11. verify' \in VerifyRecord
  BY <1>1, <1>8, <1>9, <1>10 DEF VerifyRecord
<1>12. /\ verify'.grid = h /\ verify'.grids = verify.grids /\ verify'.driver = verify.driver
       /\ verify'.notified = verify.notified /\ verify'.verdicts = verify.verdicts
  BY <1>1, <1>10 DEF VerifyRecord
<1>13. VerdictsInv(verify')
  BY <1>1, <1>2, <1>3, <1>8, <1>12 DEF VerdictsInv
<1> QED BY <1>8, <1>11, <1>12, <1>13 DEF VerifyInv

LEMMA DeselectKeeps ==
  ASSUME VerifyInv, NEW cell, Deselect(cell)
  PROVE  VerifyInv'
<1>1. verify \in VerifyRecord /\ GridInv(verify.grid) /\ VerdictsInv(verify)
  BY DEF VerifyInv
<1>2. PICK g : g = verify.grid
  OBVIOUS
<1>3. /\ GridInv(g) /\ g \in GridRecord /\ g.status = "collecting"
      /\ g.selected \in Seq(1..Len(g.words))
  BY <1>1, <1>2 DEF GridInv, Deselect
<1>4. PICK k \in DOMAIN g.selected :
        verify' = [verify EXCEPT !.grid.selected =
                     SubSeq(@, 1, k - 1) \o SubSeq(@, k + 1, Len(@))]
  BY <1>2 DEF Deselect
<1>5. PICK s : s = SubSeq(g.selected, 1, k - 1) \o SubSeq(g.selected, k + 1, Len(g.selected))
  OBVIOUS
<1>6. s \in Seq(1..Len(g.words))
  <2>1. Len(g.selected) \in Nat /\ k \in 1..Len(g.selected)
    BY <1>3, <1>4, LenProperties
  <2>2. /\ SubSeq(g.selected, 1, k - 1) \in Seq(1..Len(g.words))
        /\ SubSeq(g.selected, k + 1, Len(g.selected)) \in Seq(1..Len(g.words))
    <3>1. /\ \A i \in 1..(k - 1) : i \in 1..Len(g.selected)
          /\ \A i \in (k + 1)..Len(g.selected) : i \in 1..Len(g.selected)
      BY <2>1
    <3>2. \A i \in 1..Len(g.selected) : g.selected[i] \in 1..Len(g.words)
      BY <1>3, ElementOfSeq
    <3> QED BY <1>3, <2>1, <3>1, <3>2, SubSeqProperties
  <2> QED BY <1>5, <2>2
<1>7. PICK h : h = [g EXCEPT !.selected = s]
  OBVIOUS
<1>8. GridInv(h) /\ h.status = "collecting" /\ h \in GridRecord
  <2>1. GridInv(h) /\ h.status = "collecting"
    BY <1>3, <1>6, <1>7, NewSelection
  <2> QED BY <2>1 DEF GridInv
<1>9. verify' = [verify EXCEPT !.grid = h]
  BY <1>2, <1>4, <1>5, <1>7
<1>10. verify' \in VerifyRecord
  BY <1>1, <1>8, <1>9 DEF VerifyRecord
<1>11. /\ verify'.grid = h /\ verify'.grids = verify.grids /\ verify'.driver = verify.driver
       /\ verify'.checking = verify.checking /\ verify'.notified = verify.notified
       /\ verify'.verdicts = verify.verdicts
  BY <1>1, <1>9 DEF VerifyRecord
<1>12. VerdictsInv(verify')
  BY <1>1, <1>2, <1>3, <1>8, <1>11 DEF VerdictsInv
<1> QED BY <1>8, <1>10, <1>11, <1>12 DEF VerifyInv

LEMMA CheckKeeps ==
  ASSUME VerifyInv, Check
  PROVE  VerifyInv'
<1>1. verify \in VerifyRecord /\ GridInv(verify.grid) /\ VerdictsInv(verify)
  BY DEF VerifyInv
<1>2. PICK g : g = verify.grid
  OBVIOUS
<1>3. /\ GridInv(g) /\ g \in GridRecord
      /\ verify.grids \in Nat /\ verify.verdicts \in Seq(VerdictRecord)
  BY <1>1, <1>2 DEF GridInv, VerifyRecord
<1>4. PICK status \in Statuses :
        status = IF IsGridSelectionCorrect(g, g.selected) THEN "correct" ELSE "incorrect"
  BY DEF Statuses
<1>5. PICK n \in Nat : n = g.attempts + 1
  BY <1>3 DEF GridRecord
<1>6. PICK h : h = [g EXCEPT !.status = status, !.attempts = n]
  OBVIOUS
<1>7. /\ h \in GridRecord
      /\ h.phrase = g.phrase /\ h.words = g.words /\ h.correct = g.correct
      /\ h.selected = g.selected /\ h.status = status
  BY <1>3, <1>6 DEF GridRecord
<1>8. GridInv(h)
  <2>1. status = "correct" <=> g.selected = g.correct
    BY <1>4 DEF IsGridSelectionCorrect
  <2>2. status # "incorrect" \/ g.selected # g.correct
    BY <1>4 DEF IsGridSelectionCorrect
  <2> QED BY <1>3, <1>7, <2>1, <2>2 DEF GridInv
<1>9. PICK b \in BOOLEAN : b = (verify.driver = "component")
  OBVIOUS
<1>10. PICK verdict \in VerdictRecord :
         verdict = [status |-> status, selected |-> g.selected, attempts |-> n]
  BY <1>3, <1>4, <1>5 DEF VerdictRecord, GridRecord
<1>11. PICK verdicts : verdicts = IF verify.driver = "component" /\ ~verify.notified
                                  THEN Append(verify.verdicts, verdict) ELSE verify.verdicts
  OBVIOUS
<1>12. verdicts \in Seq(VerdictRecord)
  BY <1>3, <1>10, <1>11
<1>13. verify' = [verify EXCEPT !.checking = FALSE, !.grid = h, !.notified = b,
                                !.verdicts = verdicts]
  BY <1>1, <1>2, <1>4, <1>5, <1>6, <1>9, <1>10, <1>11 DEF Check, VerifyRecord, GridRecord
<1>14. verify' \in VerifyRecord
  BY <1>1, <1>7, <1>9, <1>12, <1>13 DEF VerifyRecord
<1>15. /\ verify'.grid = h /\ verify'.grids = verify.grids /\ verify'.driver = verify.driver
       /\ verify'.checking = FALSE /\ verify'.notified = b /\ verify'.verdicts = verdicts
  BY <1>1, <1>13 DEF VerifyRecord
<1>16. VerdictsInv(verify')
  <2>1. CASE verify.driver = "component"
    <3>1. verify.checking /\ g.status = "collecting" /\ ~verify.notified
      BY <1>1, <1>2, <2>1 DEF Check, VerdictsInv
    <3>2. Len(verify.verdicts) = verify.grids - 1
      BY <1>1, <2>1, <3>1 DEF VerdictsInv
    <3>3. Len(verdicts) = verify.grids
      BY <1>3, <1>10, <1>11, <2>1, <3>1, <3>2
    <3>4. b = TRUE /\ h.status # "collecting"
      BY <1>4, <1>7, <1>9, <2>1
    <3> QED BY <1>1, <1>15, <2>1, <3>3, <3>4 DEF VerdictsInv
  <2>2. CASE verify.driver # "component"
    BY <1>1, <1>11, <1>15, <2>2 DEF VerdictsInv
  <2> QED BY <2>1, <2>2
<1> QED BY <1>8, <1>14, <1>15, <1>16 DEF VerifyInv

LEMMA RetryKeeps ==
  ASSUME VerifyInv, Retry
  PROVE  VerifyInv'
<1>1. verify \in VerifyRecord /\ GridInv(verify.grid) /\ VerdictsInv(verify)
  BY DEF VerifyInv
<1>2. PICK phrase \in Phrases : phrase = verify.grid.phrase
  BY <1>1 DEF GridInv, GridRecord
<1>3. PICK words \in Grids(phrase) :
        verify' = [verify EXCEPT !.grid = Grid(@.phrase, words), !.notified = FALSE,
                     !.grids = @ + 1]
  BY <1>2 DEF Retry
<1>4. PICK h : h = Grid(phrase, words)
  OBVIOUS
<1>5. GridInv(h) /\ h.status = "collecting" /\ h \in GridRecord
  BY <1>4, NewGrid DEF GridInv
<1>6. verify.grids \in Nat
  BY <1>1 DEF VerifyRecord
<1>7. PICK n \in Nat : n = verify.grids + 1
  BY <1>6
<1>8. verify' = [verify EXCEPT !.grid = h, !.notified = FALSE, !.grids = n]
  BY <1>2, <1>3, <1>4, <1>7
<1>9. verify' \in VerifyRecord
  BY <1>1, <1>5, <1>8 DEF VerifyRecord
<1>10. /\ verify'.grid = h /\ verify'.grids = n /\ verify'.driver = verify.driver
       /\ verify'.checking = verify.checking /\ verify'.notified = FALSE
       /\ verify'.verdicts = verify.verdicts
  BY <1>1, <1>8 DEF VerifyRecord
<1>11. VerdictsInv(verify')
  <2>1. CASE verify.driver = "component"
    <3>1. verify.grid.status = "incorrect"
      BY <2>1 DEF Retry
    <3>2. verify.notified /\ Len(verify.verdicts) = verify.grids
      BY <1>1, <2>1, <3>1 DEF VerdictsInv
    <3>3. Len(verify.verdicts) = n - 1 /\ n # 0
      BY <1>6, <1>7, <3>2
    <3> QED BY <1>5, <1>10, <2>1, <3>3 DEF VerdictsInv
  <2>2. CASE verify.driver # "component"
    BY <1>1, <1>6, <1>7, <1>10, <2>2 DEF VerdictsInv
  <2> QED BY <2>1, <2>2
<1> QED BY <1>5, <1>9, <1>10, <1>11 DEF VerifyInv

LEMMA VerifyStep == VerifyInv /\ [VerifyNext]_verify => VerifyInv'
<1> SUFFICES ASSUME VerifyInv, [VerifyNext]_verify PROVE VerifyInv'
  OBVIOUS
<1>1. ASSUME NEW cell \in 1..(Len(verify.grid.words)), Select(cell) PROVE VerifyInv'
  BY <1>1, SelectKeeps
<1>2. ASSUME NEW cell \in 1..(Len(verify.grid.words)), Deselect(cell) PROVE VerifyInv'
  BY <1>2, DeselectKeeps
<1>3. CASE Check
  BY <1>3, CheckKeeps
<1>4. CASE Retry
  BY <1>4, RetryKeeps
<1>5. CASE UNCHANGED verify
  BY <1>5 DEF VerifyInv
<1> QED BY <1>1, <1>2, <1>3, <1>4, <1>5 DEF VerifyNext

(* What the status of a grid says of the cells selected. *)
LEMMA StatusIsRight ==
  ASSUME NEW g, GridInv(g)
  PROVE  LET Spells(cells) == [k \in DOMAIN cells |-> g.words[cells[k]]] = g.phrase
         IN /\ g.status = "correct" => Spells(g.selected)
            /\ g.status = "incorrect"
                 /\ Cardinality({g.phrase[k] : k \in DOMAIN g.phrase}) = Len(g.phrase)
                 => ~Spells(g.selected)
            /\ Spells(g.correct)
            /\ Cardinality({g.correct[k] : k \in DOMAIN g.correct}) = Len(g.phrase)
<1> DEFINE Spells(cells) == [k \in DOMAIN cells |-> g.words[cells[k]]] = g.phrase
<1>1. PICK phrase \in Phrases : phrase = g.phrase
  BY DEF GridInv, GridRecord
<1>2. PICK words \in Grids(phrase) : words = g.words
  BY <1>1 DEF GridInv
<1>3. PICK correct : correct = g.correct
  OBVIOUS
<1>4. correct = CorrectIndices(words, phrase)
  BY <1>1, <1>2, <1>3 DEF GridInv
<1>5. PICK L \in Nat : L = Len(phrase)
  BY GridProperties
<1>6. phrase \in Seq({phrase[k] : k \in DOMAIN phrase}) /\ DOMAIN phrase = 1..L
  BY <1>5, GridProperties, DecoysAreNotInPhrases
<1>7. phrase \in [1..L -> {phrase[k] : k \in DOMAIN phrase}]
  BY <1>5, <1>6, LenProperties
<1>8. /\ correct \in [1..L -> 1..Len(words)]
      /\ \A k \in 1..L : words[correct[k]] = phrase[k]
  BY <1>4, <1>5, CorrectCells
<1>9. Spells(correct)
  <2>1. [k \in 1..L |-> words[correct[k]]] = phrase
    BY <1>7, <1>8
  <2> QED BY <1>1, <1>2, <1>8, <2>1
<1>10. Cardinality({correct[k] : k \in 1..L}) = L
  <2>1. \A i, j \in 1..L : correct[i] = correct[j] => i = j
    BY <1>4, <1>5, CellsAreDistinct
  <2>2. PICK Values : Values = {correct[k] : k \in 1..L}
    OBVIOUS
  <2>3. correct \in [1..L -> Values] /\ \A v \in Values : \E k \in 1..L : correct[k] = v
    BY <1>8, <2>2
  <2> QED BY <2>1, <2>2, <2>3, AllDistinct
<1>11. Cardinality({g.correct[k] : k \in DOMAIN g.correct}) = Len(g.phrase)
  BY <1>1, <1>3, <1>5, <1>8, <1>10
<1>12. g.status = "correct" => Spells(g.selected)
  BY <1>3, <1>9 DEF GridInv
<1>13. ASSUME g.status = "incorrect", Spells(g.selected),
              Cardinality({g.phrase[k] : k \in DOMAIN g.phrase}) = Len(g.phrase)
       PROVE  FALSE
  <2>1. PICK cells : cells = g.selected
    OBVIOUS
  <2>2. cells \in Seq(1..Len(words)) /\ cells # correct
    BY <1>2, <1>3, <1>13, <2>1 DEF GridInv
  <2>3. [k \in DOMAIN cells |-> words[cells[k]]] = phrase
    BY <1>1, <1>2, <1>13, <2>1
  <2>4. DOMAIN cells = 1..L
    BY <1>6, <2>3
  <2>5. cells \in [1..L -> 1..Len(words)]
    BY <2>2, <2>4, LenProperties
  <2>6. \A k \in 1..L : words[cells[k]] = phrase[k]
    BY <2>3, <2>4
  <2>7. PICK Values : Values = {phrase[k] : k \in DOMAIN phrase}
    OBVIOUS
  <2>8. \A i, j \in 1..L : phrase[i] = phrase[j] => i = j
    <3>1. Cardinality(Values) = L
      BY <1>1, <1>5, <1>13, <2>7
    <3>2. phrase \in [1..L -> Values] /\ \A v \in Values : \E k \in 1..L : phrase[k] = v
      BY <1>6, <1>7, <2>7
    <3> QED BY <3>1, <3>2, AllDistinct
  <2>9. cells = CorrectIndices(words, phrase)
    BY <1>5, <2>5, <2>6, <2>8, OneWayToSpell
  <2> QED BY <1>4, <2>2, <2>9
<1> QED BY <1>3, <1>9, <1>11, <1>12, <1>13

(* VerdictIsRight: for any phrases, shuffles, decoys and orders of         *)
(* clicks, a grid can be solved by the cells that spell its phrase and by  *)
(* no others unless the phrase repeats a word, and each gets one verdict.  *)
THEOREM VerificationCorrect == VerifySpec => []VerdictIsRight
<1>1. VerifyInv => VerdictIsRight
  <2> SUFFICES ASSUME VerifyInv PROVE VerdictIsRight
    OBVIOUS
  <2>1. verify \in VerifyRecord /\ GridInv(verify.grid) /\ VerdictsInv(verify)
    BY DEF VerifyInv
  <2>2. verify.grids \in Nat /\ verify.driver \in {"component", "headless"}
    BY <2>1 DEF VerifyRecord
  <2>3. Len(verify.verdicts) <= verify.grids
    BY <2>1, <2>2 DEF VerdictsInv
  <2>4. verify.driver = "component" /\ verify.grid.status # "collecting" =>
          Len(verify.verdicts) = verify.grids
    BY <2>1 DEF VerdictsInv
  <2> QED BY <2>1, <2>3, <2>4, StatusIsRight DEF VerdictIsRight
<1> QED BY <1>1, VerifyInitially, VerifyStep, PTL DEF VerifySpec
=============================================================================
