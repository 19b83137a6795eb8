---------------------------- MODULE InboxProofs ----------------------------
(***************************************************************************)
(* Proofs about TeamInbox, for any calls, times and bounds: letters that    *)
(* were sent are kept, marked ones stay read, and listings are full.        *)
(***************************************************************************)
EXTENDS TeamInbox, TLAPS

-----------------------------------------------------------------------------
(* The inductive invariant. *)

Marking(c) == call[c].step \in {"text", "open", "put", "replace"}
Marks(c, n) == Marking(c) /\ call[c].name = n

\* Nobody has seen a whole letter under this name.
Untouched(n) ==
  /\ tmp[n] = Absent
  /\ n \notin marked /\ n \notin together
  /\ \A m \in sent : m[2] # n
  /\ \A d \in Calls : n \notin call[d].counted /\ n \notin call[d].owed /\ ~Marks(d, n)

Writes(c, n) == call[c].step = "write" /\ call[c].name = n

\* A name that is free, or whose file a call has yet to write, is untouched.
WriteInv ==
  /\ \A n \in Names : file[n] = Absent => Untouched(n)
  /\ \A c \in Calls : call[c].step = "write" =>
       call[c].name \in Names /\ call[c].letter \in Letters
  /\ \A c \in Calls, n \in Names : Writes(c, n) => file[n] = Empty /\ Untouched(n)
  /\ \A c, d \in Calls, n \in Names : Writes(c, n) /\ Writes(d, n) => c = d

\* What is marked, and what a call has counted as marked, is not unread.
MarkInv ==
  /\ MarkedIsRead
  /\ \A c \in Calls : Marking(c) => call[c].name \in Names
  /\ \A c \in Calls : call[c].step \in {"open", "put", "replace"} => call[c].letter \in Letters
  /\ \A c \in Calls : Marking(c) \/ call[c].step = "look" =>
       \A n \in call[c].counted : file[n].is # "unread"
  /\ \A n \in Names : tmp[n].is # "unread"

\* Whatever is in the files of a name, or will be written to them, is letter m.
Holds(n, m) ==
  /\ file[n] # Absent
  /\ file[n] # Empty => file[n].letter = m
  /\ tmp[n] \notin {Absent, Empty} => tmp[n].letter = m
  /\ \A c \in Calls :
       call[c].step \in {"open", "put", "replace"} /\ call[c].name = n => call[c].letter = m

LetterInv == \A m \in sent : Holds(m[2], m[1])

Busy(c, n) == call[c].step \in {"put", "replace"} /\ call[c].name = n

\* A call that marks a name alone has the temporary file to itself, and the
\* letter is whole.
Alone(n) ==
  /\ \A c, d \in Calls : Busy(c, n) /\ Busy(d, n) => c = d
  /\ \A c \in Calls : Busy(c, n) /\ call[c].step = "put" => call[c].at = "tmp"
  /\ \A c \in Calls : Busy(c, n) /\ call[c].step = "replace" => tmp[n] \in Whole
  /\ (\E m \in sent : m[2] = n) => file[n] \in Whole

AloneInv == \A n \in Names \ together : Alone(n)

AtTmp(n) == \E d \in Calls : call[d].step = "put" /\ call[d].name = n /\ call[d].at = "tmp"
AtFile(n) == \E d \in Calls : call[d].step = "put" /\ call[d].name = n /\ call[d].at = "file"

\* A file that is empty is about to be written, or it is a temporary file that
\* nobody is going to rename.
Torn(n) ==
  /\ tmp[n] = Empty => AtTmp(n) \/ (n \notin together /\ \A c \in Calls : ~Busy(c, n))
  /\ file[n] = Empty => AtFile(n) \/ \A m \in sent : m[2] # n

\* ... unless a call failed in the middle of writing it.
TearInv == \A n \in Names \ lost : Torn(n)

\* A letter that a listing owes is still to come, unless it was shown or marked.
ListInv ==
  \A c \in Calls : call[c].step = "list" =>
    /\ call[c].only \in {{"unread"}, {"unread", "read"}}
    /\ \A n \in call[c].owed :
         n[1] > call[c].since /\ text[n] # "illegible" /\ \E m \in sent : m[2] = n
    /\ \/ Cardinality(call[c].counted) = Limit /\ call[c].todo = {}
       \/ \A n \in call[c].owed :
            \/ n \in call[c].counted \cup call[c].todo \cup together
            \/ call[c].only = {"unread"} /\ file[n].is = "read"

InboxInv ==
  /\ InboxTypeOK /\ WriteInv /\ MarkInv /\ LetterInv /\ AloneInv /\ TearInv /\ ListInv

LEMMA Kinds ==
  ASSUME NEW f \in Whole \cup {Absent, Empty}
  PROVE  /\ f.is \in {"absent", "empty", "unread", "read"}
         /\ f.is = "absent" <=> f = Absent
         /\ f.is = "empty" <=> f = Empty
         /\ f.is \in {"unread", "read"} <=> f \in Whole
         /\ f.letter \in 0..MaxLetters
  BY InboxAssumption DEF Whole, Absent, Empty, Letters

LEMMA NoCallState ==
  /\ NoCall \in CallStates /\ NoCall.step = "idle" /\ NoCall.counted = {} /\ NoCall.owed = {}
  /\ NoCall.todo = {}
  BY InboxAssumption DEF NoCall, CallStates, Steps

\* A call that ends, or moves on in its own record, is the only one to change.
LEMMA InboxTypeStep ==
  ASSUME InboxTypeOK, WriteInv, MarkInv, InboxNext
  PROVE  InboxTypeOK'
<1> USE InboxAssumption, NoCallState
<1>1. ASSUME NEW c \in Calls, Finish(c) PROVE call' \in [Calls -> CallStates]
  BY <1>1 DEF Finish, InboxTypeOK
<1>2. ASSUME NEW c \in Calls, NEW s \in Seconds, WriteMessage(c, s) PROVE InboxTypeOK'
  <2>1. ASSUME NEW k \in 0..MaxAttempts, Opened(c, <<s, k>>) PROVE InboxTypeOK'
    <3>1. <<s, k>> \in Names /\ letters' \in Letters /\ letters' \in 0..MaxLetters
      BY <2>1 DEF Opened, Names, Letters, InboxTypeOK
    <3>2. [NoCall EXCEPT !.step = "write", !.letter = letters', !.name = <<s, k>>] \in CallStates
      BY <3>1 DEF CallStates, NoCall, Steps
    <3>3. call' \in [Calls -> CallStates] /\ file' \in [Names -> Whole \cup {Absent, Empty}]
      BY <2>1, <3>1, <3>2 DEF Opened, InboxTypeOK
    <3> QED
      BY <1>2, <3>1, <3>3 DEF WriteMessage, InboxTypeOK
  <2>2. CASE UNCHANGED <<letters, file, call>>
    BY <1>2, <2>2 DEF WriteMessage, InboxTypeOK
  <2> QED
    BY <1>2, <2>1, <2>2 DEF WriteMessage
<1>3. ASSUME NEW c \in Calls, NEW as \in Texts, Stored(c, as), faults' \in 0..MaxFaults
      PROVE  InboxTypeOK'
  <2>1. call[c].name \in Names /\ call[c].letter \in Letters
    BY <1>3 DEF Stored, WriteInv
  <2>2. [letter |-> call[c].letter, is |-> "unread"] \in Whole
    BY <2>1 DEF Whole
  <2>3. text' \in [Names -> Texts] /\ file' \in [Names -> Whole \cup {Absent, Empty}]
    BY <1>3, <2>1, <2>2 DEF Stored, InboxTypeOK
  <2>4. sent' \subseteq Letters \X Names
    BY <1>3, <2>1 DEF Stored, InboxTypeOK
  <2>5. call' \in [Calls -> CallStates]
    BY <1>1, <1>3 DEF Stored
  <2> QED
    BY <1>3, <2>3, <2>4, <2>5 DEF Stored, InboxTypeOK
<1>4. ASSUME NEW c \in Calls, NEW n \in Names, MarkRead(c, n) PROVE InboxTypeOK'
  <2>1. PICK todo \in SUBSET Names :
          call' = [call EXCEPT ![c] = [NoCall EXCEPT !.step = "look", !.todo = todo, !.upto = n[1]]]
    BY <1>4 DEF MarkRead
  <2>2. NoCall \in CallStates /\ n[1] \in Nat
    BY DEF Names
  <2>3. [NoCall EXCEPT !.step = "look", !.todo = todo, !.upto = n[1]] \in CallStates
    BY <2>2 DEF CallStates, Steps
  <2> QED
    BY <1>4, <2>1, <2>3 DEF MarkRead, InboxTypeOK
<1>5. ASSUME NEW c \in Calls, NEW n \in Names, Look(c, n) PROVE InboxTypeOK'
  <2>1. call[c] \in CallStates
    BY DEF InboxTypeOK
  <2>2. call'[c] \in CallStates /\ call' = [call EXCEPT ![c] = call'[c]]
    BY <1>5, <2>1 DEF Look, CallStates, Steps, InboxTypeOK
  <2> QED
    BY <1>5, <2>2 DEF Look, InboxTypeOK
<1>6. ASSUME NEW at \in CallStates, at.name \in Names PROVE Counted(at) \in CallStates
  BY <1>6 DEF Counted, CallStates, NoCall, Steps
<1>7. ASSUME NEW c \in Calls, ReadText(c) PROVE InboxTypeOK'
  <2>1. call[c] \in CallStates /\ call[c].name \in Names
    BY <1>7 DEF ReadText, InboxTypeOK, MarkInv, Marking
  <2>2. CASE call' = [call EXCEPT ![c] = Counted(@)]
    BY <1>6, <1>7, <2>1, <2>2 DEF ReadText, InboxTypeOK
  <2>3. CASE call' = [call EXCEPT ![c].step = "open", ![c].letter = file[call[c].name].letter]
    <3>1. file[call[c].name].letter \in 0..MaxLetters
      BY <2>1, Kinds DEF InboxTypeOK
    <3> QED
      BY <1>7, <2>1, <2>3, <3>1 DEF ReadText, InboxTypeOK, CallStates, Steps
  <2> QED
    BY <1>7, <2>2, <2>3 DEF ReadText
<1>8. ASSUME NEW c \in Calls, OpenTmp(c) PROVE InboxTypeOK'
  <2>1. call[c] \in CallStates /\ call[c].name \in Names
    BY <1>8 DEF OpenTmp, InboxTypeOK, MarkInv, Marking
  <2>2. call' \in [Calls -> CallStates]
    BY <1>8, <2>1 DEF OpenTmp, InboxTypeOK, CallStates, Steps
  <2> QED
    BY <1>8, <2>1, <2>2 DEF OpenTmp, InboxTypeOK
<1>9. ASSUME NEW c \in Calls, Put(c) PROVE InboxTypeOK'
  <2>1. call[c] \in CallStates /\ call[c].name \in Names /\ call[c].letter \in Letters
    BY <1>9 DEF Put, InboxTypeOK, MarkInv, Marking
  <2>2. [letter |-> call[c].letter, is |-> "read"] \in Whole
    BY <2>1 DEF Whole
  <2>3. call' \in [Calls -> CallStates]
    BY <1>9, <2>1 DEF Put, InboxTypeOK, CallStates, Steps
  <2> QED
    BY <1>9, <2>1, <2>2, <2>3 DEF Put, InboxTypeOK
<1>10. ASSUME NEW c \in Calls, Replace(c) PROVE InboxTypeOK'
  <2> DEFINE n == call[c].name
  <2>1. call[c] \in CallStates /\ n \in Names
    BY <1>10 DEF Replace, InboxTypeOK, MarkInv, Marking
  <2>2. Moved(n) \in [Calls -> CallStates]
    BY DEF Moved, InboxTypeOK, CallStates
  <2>3. Moved(n)[c] = call[c]
    BY <1>10 DEF Moved, Writers, Replace
  <2>4. call' \in [Calls -> CallStates]
    BY <1>6, <1>10, <2>1, <2>2, <2>3 DEF Replace
  <2> QED
    BY <1>10, <2>1, <2>4 DEF Replace, InboxTypeOK
<1>11. ASSUME NEW c \in Calls, ReplaceFails(c) PROVE InboxTypeOK'
  BY <1>1, <1>11 DEF ReplaceFails, InboxTypeOK
<1>12. ASSUME NEW c \in Calls, MarkMessageRead(c) PROVE InboxTypeOK'
  <2>1. call[c].counted \subseteq Names
    BY DEF InboxTypeOK, CallStates
  <2> QED
    BY <1>1, <1>12, <2>1 DEF MarkMessageRead, InboxTypeOK
<1>13. ASSUME NEW c \in Calls, NEW only \in {{"unread"}, {"unread", "read"}},
              NEW since \in Seconds \cup {0}, ListMessages(c, only, since)
       PROVE InboxTypeOK'
  <2> DEFINE todo == {n \in Names : file[n] # Absent}
             owed == {m[2] : m \in {e \in sent : Passes(e[2], only, since)}}
             at == [NoCall EXCEPT !.step = "list", !.only = only, !.since = since,
                                  !.todo = todo, !.owed = owed]
  <2>1. owed \subseteq Names /\ todo \subseteq Names
    BY DEF InboxTypeOK
  <2>2. at \in CallStates
    BY <2>1 DEF CallStates, NoCall, Steps
  <2>3. call' = [call EXCEPT ![c] = at]
    BY <1>13 DEF ListMessages
  <2> QED
    BY <1>13, <2>2, <2>3 DEF ListMessages, InboxTypeOK
<1>14. ASSUME NEW c \in Calls, NEW n \in Names, ListNext(c, n) PROVE InboxTypeOK'
  <2>1. call[c] \in CallStates
    BY DEF InboxTypeOK
  <2>2. PICK shown \in SUBSET Names, todo \in SUBSET Names :
          call' = [call EXCEPT ![c].counted = shown, ![c].todo = todo]
    BY <1>14, <2>1 DEF ListNext, CallStates
  <2>3. [call[c] EXCEPT !.counted = shown, !.todo = todo] \in CallStates
    BY <2>1 DEF CallStates
  <2>4. call' \in [Calls -> CallStates]
    BY <2>2, <2>3 DEF InboxTypeOK
  <2> QED
    BY <1>14, <2>4 DEF ListNext, InboxTypeOK
<1>15. ASSUME NEW c \in Calls, Listed(c) PROVE InboxTypeOK'
  BY <1>1, <1>15 DEF Listed, InboxTypeOK
<1>16. ASSUME NEW c \in Calls, WriteFails(c) PROVE InboxTypeOK'
  BY <1>1, <1>16 DEF WriteFails, CutOff, InboxTypeOK
<1>17. CASE InboxRestart
  BY <1>17 DEF InboxRestart, CutOff, InboxTypeOK
<1>18. ASSUME NEW c \in Calls, CheckMessages(c) \/ RecentActivity(c) PROVE InboxTypeOK'
  BY <1>13, <1>18 DEF CheckMessages, RecentActivity
<1>19. ASSUME NEW c \in Calls, SendMessage(c) \/ WriteShort(c) PROVE InboxTypeOK'
  <2>1. faults' \in 0..MaxFaults
    BY <1>19 DEF SendMessage, WriteShort, InboxTypeOK
  <2> QED
    BY <1>3, <1>19, <2>1 DEF SendMessage, WriteShort, Texts
<1> QED
  BY <1>2, <1>4, <1>5, <1>7, <1>8, <1>9, <1>10, <1>11, <1>12, <1>14, <1>15, <1>16, <1>17,
     <1>18, <1>19 DEF InboxNext, Serve, RequestReview

-----------------------------------------------------------------------------
(* How a step changes the calls. *)

\* The calls but c stay as they are, up to where their open file is.
Others(c) ==
  \A d \in Calls \ {c} :
    /\ call'[d].step = call[d].step /\ call'[d].name = call[d].name
    /\ call'[d].letter = call[d].letter /\ call'[d].todo = call[d].todo
    /\ call'[d].counted = call[d].counted /\ call'[d].owed = call[d].owed
    /\ call'[d].only = call[d].only /\ call'[d].since = call[d].since

LEMMA OthersKept ==
  ASSUME InboxTypeOK, NEW c \in Calls, NEW r, call' = [call EXCEPT ![c] = r]
  PROVE  Others(c) /\ call'[c] = r /\ \A d \in Calls \ {c} : call'[d] = call[d]
  BY DEF Others, InboxTypeOK

LEMMA FinishFacts ==
  ASSUME InboxTypeOK, NEW c \in Calls, Finish(c)
  PROVE  Others(c) /\ call'[c] = NoCall /\ \A d \in Calls \ {c} : call'[d] = call[d]
  BY OthersKept DEF Finish

LEMMA MovedFacts ==
  ASSUME InboxTypeOK, NEW c \in Calls, Replace(c)
  PROVE  /\ Others(c) /\ call'[c] = Counted(call[c])
         /\ \A d \in Calls \ {c} :
              call'[d].at = IF d \in Writers(call[c].name)
                            THEN IF call[d].at = "tmp" THEN "file" ELSE "gone"
                            ELSE call[d].at
<1> DEFINE n == call[c].name
<1>1. ASSUME NEW d \in Calls, d \in Writers(n)
      PROVE  Moved(n)[d] = [call[d] EXCEPT !.at = IF call[d].at = "tmp" THEN "file" ELSE "gone"]
  BY <1>1 DEF Moved, InboxTypeOK, CallStates
<1>2. ASSUME NEW d \in Calls, d \notin Writers(n) PROVE Moved(n)[d] = call[d]
  BY <1>2 DEF Moved
<1>3. c \notin Writers(n) /\ Moved(n) = [d \in Calls |-> Moved(n)[d]]
  BY DEF Replace, Moved, Writers
<1>4. call'[c] = Counted(call[c]) /\ \A d \in Calls \ {c} : call'[d] = Moved(n)[d]
  BY <1>2, <1>3 DEF Replace
<1>5. \A d \in Calls : call[d] \in CallStates
  BY DEF InboxTypeOK
<1>6. ASSUME NEW d \in Calls \ {c}
      PROVE  /\ call'[d].step = call[d].step /\ call'[d].name = call[d].name
             /\ call'[d].letter = call[d].letter /\ call'[d].todo = call[d].todo
             /\ call'[d].counted = call[d].counted /\ call'[d].owed = call[d].owed
             /\ call'[d].only = call[d].only /\ call'[d].since = call[d].since
             /\ call'[d].at = IF d \in Writers(n)
                              THEN IF call[d].at = "tmp" THEN "file" ELSE "gone"
                              ELSE call[d].at
  <2>1. CASE d \in Writers(n)
    <3> DEFINE at == IF call[d].at = "tmp" THEN "file" ELSE "gone"
    <3>1. call'[d] = [call[d] EXCEPT !.at = at] /\ call[d] \in CallStates
      BY <1>1, <1>4, <1>5, <2>1
    <3> HIDE DEF at
    <3>2. call'[d].at = at
      BY <3>1 DEF CallStates
    <3> QED
      BY <2>1, <3>1, <3>2 DEF at, CallStates
  <2>2. CASE d \notin Writers(n)
    BY <1>2, <1>4, <2>2
  <2> QED
    BY <2>1, <2>2
<1> QED
  BY <1>4, <1>6 DEF Others

LEMMA CountedFacts ==
  ASSUME NEW at
  PROVE  /\ Counted(at).step = "look" /\ Counted(at).counted = at.counted \cup {at.name}
         /\ Counted(at).owed = {} /\ Counted(at).todo = at.todo
  BY DEF Counted, NoCall

\* What each step makes of the call that takes it.
LEMMA MarkReadFacts ==
  ASSUME InboxTypeOK, NEW c \in Calls, NEW n \in Names, MarkRead(c, n)
  PROVE  /\ Others(c) /\ \A d \in Calls \ {c} : call'[d] = call[d]
         /\ call'[c].step = "look" /\ call'[c].counted = {} /\ call'[c].owed = {}
<1>1. PICK todo \in SUBSET Names :
        call' = [call EXCEPT ![c] = [NoCall EXCEPT !.step = "look", !.todo = todo, !.upto = n[1]]]
  BY DEF MarkRead
<1> DEFINE r == [NoCall EXCEPT !.step = "look", !.todo = todo, !.upto = n[1]]
<1>2. r.step = "look" /\ r.counted = {} /\ r.owed = {}
  BY DEF NoCall
<1> QED
  BY <1>1, <1>2, OthersKept

LEMMA LookFacts ==
  ASSUME InboxTypeOK, NEW c \in Calls, NEW n \in Names, Look(c, n)
  PROVE  /\ Others(c) /\ \A d \in Calls \ {c} : call'[d] = call[d]
         /\ call'[c].counted = call[c].counted /\ call'[c].owed = call[c].owed
         /\ \/ call'[c].step = "look"
            \/ call'[c].step = "text" /\ call'[c].name = n /\ file[n].is = "unread"
<1>1. call[c] \in CallStates
  BY DEF InboxTypeOK
<1> DEFINE rest == [call[c] EXCEPT !.todo = @ \ {n}]
           at == [rest EXCEPT !.step = "text", !.name = n]
           r == IF Readable(n) /\ file[n].is = "unread" /\ n[1] <= rest.upto THEN at ELSE rest
<1>2. call' = [call EXCEPT ![c] = r]
  BY DEF Look
<1>3. call[c].step = "look"
  BY DEF Look
<1>4. rest.counted = call[c].counted /\ rest.owed = call[c].owed /\ rest.step = "look"
  BY <1>1, <1>3 DEF CallStates
<1>5. at.counted = call[c].counted /\ at.owed = call[c].owed /\ at.step = "text" /\ at.name = n
  BY <1>1 DEF CallStates
<1>6. Others(c) /\ call'[c] = r /\ \A d \in Calls \ {c} : call'[d] = call[d]
  BY <1>2, OthersKept
<1> HIDE DEF at, rest
<1> QED
  BY <1>4, <1>5, <1>6

LEMMA ReadTextFacts ==
  ASSUME InboxTypeOK, NEW c \in Calls, ReadText(c)
  PROVE  /\ Others(c) /\ \A d \in Calls \ {c} : call'[d] = call[d]
         /\ \/ /\ call'[c].step = "open" /\ Readable(call[c].name)
               /\ call'[c].letter = file[call[c].name].letter
               /\ call'[c].name = call[c].name /\ call'[c].counted = call[c].counted
               /\ call'[c].owed = call[c].owed
            \/ call'[c] = Counted(call[c]) /\ file[call[c].name].is # "unread"
<1>1. call[c] \in CallStates
  BY DEF InboxTypeOK
<1>2. CASE call' = [call EXCEPT ![c] = Counted(@)] /\ file[call[c].name].is # "unread"
  BY <1>2, OthersKept
<1>3. CASE /\ Readable(call[c].name)
           /\ call' = [call EXCEPT ![c].step = "open", ![c].letter = file[call[c].name].letter]
  <2> DEFINE r == [call[c] EXCEPT !.step = "open", !.letter = file[call[c].name].letter]
  <2>1. call' = [call EXCEPT ![c] = r]
    BY <1>3 DEF InboxTypeOK
  <2>2. /\ r.step = "open" /\ r.letter = file[call[c].name].letter /\ r.name = call[c].name
        /\ r.counted = call[c].counted /\ r.owed = call[c].owed
    BY <1>1 DEF CallStates
  <2>3. Others(c) /\ call'[c] = r /\ \A d \in Calls \ {c} : call'[d] = call[d]
    BY <2>1, OthersKept
  <2> QED
    BY <1>3, <2>2, <2>3
<1> QED
  BY <1>2, <1>3 DEF ReadText

LEMMA OpenTmpFacts ==
  ASSUME InboxTypeOK, NEW c \in Calls, OpenTmp(c)
  PROVE  /\ Others(c) /\ \A d \in Calls \ {c} : call'[d] = call[d]
         /\ call'[c].step = "put" /\ call'[c].at = "tmp" /\ call'[c].name = call[c].name
         /\ call'[c].letter = call[c].letter
         /\ call'[c].counted = call[c].counted /\ call'[c].owed = call[c].owed
<1>1. call[c] \in CallStates
  BY DEF InboxTypeOK
<1> DEFINE r == [call[c] EXCEPT !.step = "put", !.at = "tmp"]
<1>2. call' = [call EXCEPT ![c] = r]
  BY DEF OpenTmp, InboxTypeOK
<1>3. /\ r.step = "put" /\ r.at = "tmp" /\ r.name = call[c].name /\ r.letter = call[c].letter
      /\ r.counted = call[c].counted /\ r.owed = call[c].owed
  BY <1>1 DEF CallStates
<1>4. Others(c) /\ call'[c] = r /\ \A d \in Calls \ {c} : call'[d] = call[d]
  BY <1>2, OthersKept
<1> QED
  BY <1>3, <1>4

LEMMA PutFacts ==
  ASSUME InboxTypeOK, NEW c \in Calls, Put(c)
  PROVE  /\ Others(c) /\ \A d \in Calls \ {c} : call'[d] = call[d]
         /\ call'[c].step = "replace" /\ call'[c].name = call[c].name
         /\ call'[c].letter = call[c].letter
         /\ call'[c].counted = call[c].counted /\ call'[c].owed = call[c].owed
<1>1. call[c] \in CallStates
  BY DEF InboxTypeOK
<1> DEFINE r == [call[c] EXCEPT !.step = "replace"]
<1>2. call' = [call EXCEPT ![c] = r]
  BY DEF Put, InboxTypeOK
<1>3. /\ r.step = "replace" /\ r.name = call[c].name /\ r.letter = call[c].letter
      /\ r.counted = call[c].counted /\ r.owed = call[c].owed
  BY <1>1 DEF CallStates
<1>4. Others(c) /\ call'[c] = r /\ \A d \in Calls \ {c} : call'[d] = call[d]
  BY <1>2, OthersKept
<1> QED
  BY <1>3, <1>4

LEMMA ListMessagesFacts ==
  ASSUME InboxTypeOK, NEW c \in Calls, NEW only, NEW since, ListMessages(c, only, since)
  PROVE  /\ Others(c) /\ \A d \in Calls \ {c} : call'[d] = call[d]
         /\ call'[c].step = "list" /\ call'[c].counted = {}
         /\ call'[c].only = only /\ call'[c].since = since
         /\ call'[c].todo = {n \in Names : file[n] # Absent}
         /\ call'[c].owed = {m[2] : m \in {e \in sent : Passes(e[2], only, since)}}
<1> DEFINE todo == {n \in Names : file[n] # Absent}
           owed == {m[2] : m \in {e \in sent : Passes(e[2], only, since)}}
           r == [NoCall EXCEPT !.step = "list", !.only = only, !.since = since,
                               !.todo = todo, !.owed = owed]
<1>1. call' = [call EXCEPT ![c] = r]
  BY DEF ListMessages
<1> HIDE DEF todo, owed
<1>2. r.step = "list" /\ r.counted = {} /\ r.only = only /\ r.since = since
      /\ r.todo = todo /\ r.owed = owed
  BY DEF NoCall
<1> HIDE DEF r
<1>3. /\ Others(c) /\ call'[c] = r /\ \A d \in Calls \ {c} : call'[d] = call[d]
  BY <1>1, OthersKept
<1> QED
  BY <1>2, <1>3 DEF todo, owed

LEMMA ListNextFacts ==
  ASSUME InboxTypeOK, NEW c \in Calls, NEW n \in Names, ListNext(c, n)
  PROVE  /\ Others(c) /\ \A d \in Calls \ {c} : call'[d] = call[d]
         /\ call'[c].step = "list" /\ call'[c].only = call[c].only
         /\ call'[c].since = call[c].since /\ call'[c].owed = call[c].owed
         /\ call'[c].counted = call[c].counted \cup
              (IF Passes(n, call[c].only, call[c].since) THEN {n} ELSE {})
         /\ call'[c].todo = IF Cardinality(call'[c].counted) = Limit THEN {} ELSE call[c].todo \ {n}
<1> DEFINE shown == call[c].counted \cup
                      (IF Passes(n, call[c].only, call[c].since) THEN {n} ELSE {})
           todo == IF Cardinality(shown) = Limit THEN {} ELSE call[c].todo \ {n}
           r == [call[c] EXCEPT !.counted = shown, !.todo = todo]
<1>1. call[c] \in CallStates /\ call[c].step = "list"
  BY DEF InboxTypeOK, ListNext
<1>2. call' = [call EXCEPT ![c] = r]
  BY <1>1 DEF ListNext, CallStates, InboxTypeOK
<1> HIDE DEF shown, todo
<1>3. r.counted = shown /\ r.todo = todo /\ r.step = "list" /\ r.only = call[c].only
      /\ r.since = call[c].since /\ r.owed = call[c].owed
  BY <1>1 DEF CallStates
<1> HIDE DEF r
<1>4. Others(c) /\ call'[c] = r /\ \A d \in Calls \ {c} : call'[d] = call[d]
  BY <1>2, OthersKept
<1> QED
  BY <1>3, <1>4 DEF shown, todo

LEMMA OpenedFacts ==
  ASSUME InboxTypeOK, NEW c \in Calls, NEW n \in Names, Opened(c, n)
  PROVE  /\ Others(c) /\ \A d \in Calls \ {c} : call'[d] = call[d]
         /\ call'[c].step = "write" /\ call'[c].name = n /\ call'[c].letter = letters'
         /\ call'[c].counted = {} /\ call'[c].owed = {} /\ letters' \in Letters
<1>1. letters' \in Letters
  BY InboxAssumption DEF Opened, Letters, InboxTypeOK
<1> DEFINE r == [NoCall EXCEPT !.step = "write", !.letter = letters', !.name = n]
<1>2. r.step = "write" /\ r.name = n /\ r.letter = letters' /\ r.counted = {} /\ r.owed = {}
  BY DEF NoCall
<1> QED
  BY <1>1, <1>2, OthersKept DEF Opened

-----------------------------------------------------------------------------
(* A name that nobody has seen stays so. *)

\* What a step of call c must not do to such a name.
Spares(c, n) ==
  /\ tmp'[n] = tmp[n] /\ n \notin marked' /\ n \notin together'
  /\ \A m \in sent' : m \in sent \/ m[2] # n
  /\ n \notin call'[c].counted /\ n \notin call'[c].owed
  /\ call'[c].step \in {"text", "open", "put", "replace"} => call'[c].name # n

LEMMA UntouchedKept ==
  ASSUME NEW n, Untouched(n), NEW c \in Calls, Others(c), Spares(c, n)
  PROVE  Untouched(n)'
  BY DEF Untouched, Others, Marks, Marking, Spares

\* ... so that a step which spares them, and begins no letter, keeps WriteInv.
LEMMA WriteKept ==
  ASSUME InboxTypeOK, WriteInv, NEW c \in Calls, Others(c), call'[c].step # "write",
         \A n \in Names : Untouched(n) /\ file'[n] \in {Absent, Empty} => Spares(c, n),
         \A n \in Names : file'[n] = Absent => file[n] = Absent,
         \A d \in Calls \ {c}, n \in Names : Writes(d, n) => file'[n] = Empty
  PROVE  WriteInv'
<1>1. ASSUME NEW n \in Names, Untouched(n), file'[n] \in {Absent, Empty} PROVE Untouched(n)'
  <2>1. Spares(c, n)
    BY <1>1
  <2> QED
    BY <1>1, <2>1, UntouchedKept
<1>2. ASSUME NEW n \in Names, file'[n] = Absent PROVE Untouched(n)'
  BY <1>1, <1>2 DEF WriteInv
<1>3. ASSUME NEW d \in Calls, NEW n \in Names, Writes(d, n)'
      PROVE  d # c /\ Writes(d, n) /\ file'[n] = Empty /\ Untouched(n)'
  <2>1. d # c /\ Writes(d, n)
    BY <1>3 DEF Others, Writes
  <2> QED
    BY <1>1, <2>1 DEF WriteInv
<1>4. ASSUME NEW d \in Calls, call'[d].step = "write"
      PROVE  call'[d].name \in Names /\ call'[d].letter \in Letters
  BY <1>4 DEF Others, WriteInv
<1> QED
  BY <1>2, <1>3, <1>4 DEF WriteInv

\* The steps that leave the files alone, and begin no letter.
LEMMA WriteQuiet ==
  ASSUME InboxTypeOK, WriteInv, NEW c \in Calls, Others(c), call'[c].step # "write",
         UNCHANGED <<file, tmp, sent, together>>,
         \A n \in Names : Untouched(n) /\ file[n] \in {Absent, Empty} => Spares(c, n)
  PROVE  WriteInv'
  BY WriteKept DEF WriteInv, Writes

LEMMA WriteStep ==
  ASSUME InboxInv, InboxNext
  PROVE  WriteInv'
<1> USE DEF InboxInv
<1>1. ASSUME NEW c \in Calls, NEW s \in Seconds, WriteMessage(c, s) PROVE WriteInv'
  <2>1. ASSUME NEW k \in 0..MaxAttempts, file[<<s, k>>] = Absent, Opened(c, <<s, k>>)
        PROVE  WriteInv'
    <3> DEFINE n == <<s, k>>
    <3>1. n \in Names /\ Untouched(n)
      BY <2>1 DEF Names, WriteInv
    <3>2. UNCHANGED <<tmp, sent, marked, together>>
      BY <1>1 DEF WriteMessage
    <3>3. /\ Others(c) /\ call'[c].step = "write" /\ call'[c].name = n
          /\ call'[c].counted = {} /\ call'[c].owed = {} /\ call'[c].letter \in Letters
      BY <2>1, <3>1, OpenedFacts
    <3>4. file' = [file EXCEPT ![n] = Empty]
      BY <2>1 DEF Opened
    <3>5. \A x \in Names : file'[x] = IF x = n THEN Empty ELSE file[x]
      BY <3>1, <3>4 DEF InboxTypeOK
    <3> HIDE DEF n
    <3>6. ASSUME NEW x \in Names, Untouched(x) PROVE Untouched(x)'
      <4>1. Spares(c, x)
        BY <3>2, <3>3, <3>6 DEF Spares, Untouched
      <4> QED
        BY <3>3, <3>6, <4>1, UntouchedKept
    <3>7. Absent # Empty
      BY DEF Absent, Empty
    <3>8. \A x \in Names : file'[x] = Absent => Untouched(x)'
      BY <3>5, <3>6, <3>7 DEF WriteInv
    <3>9. \A d \in Calls, x \in Names : Writes(d, x)' => (d = c /\ x = n) \/ (d # c /\ Writes(d, x))
      BY <3>3 DEF Writes, Others
    <3>10. \A d \in Calls : ~Writes(d, n)
      BY <2>1, <3>1, <3>7 DEF WriteInv, n
    <3>11. \A d \in Calls, x \in Names : Writes(d, x)' => file'[x] = Empty /\ Untouched(x)'
      BY <3>1, <3>5, <3>6, <3>9 DEF WriteInv
    <3>12. \A d, e \in Calls, x \in Names : Writes(d, x)' /\ Writes(e, x)' => d = e
      BY <3>9, <3>10 DEF WriteInv
    <3>13. \A d \in Calls : call'[d].step = "write" => call'[d].name \in Names /\ call'[d].letter \in Letters
      BY <3>1, <3>3 DEF Others, WriteInv
    <3> QED
      BY <3>8, <3>11, <3>12, <3>13 DEF WriteInv
  <2>2. CASE UNCHANGED <<letters, file, call>>
    BY <1>1, <2>2 DEF WriteMessage, WriteInv, Untouched, Writes, Marks, Marking
  <2> QED
    BY <1>1, <2>1, <2>2 DEF WriteMessage
<1>2. ASSUME NEW c \in Calls, NEW as \in Texts, Stored(c, as) PROVE WriteInv'
  <2> DEFINE n == call[c].name
  <2>1. Others(c) /\ call'[c] = NoCall
    BY <1>2, FinishFacts DEF Stored
  <2>2. n \in Names /\ call[c].letter \in Letters /\ Writes(c, n)
    BY <1>2 DEF Stored, WriteInv, Writes
  <2>3. UNCHANGED <<tmp, marked, together>> /\ sent' = sent \cup {<<call[c].letter, n>>}
    BY <1>2 DEF Stored
  <2>4. \A x \in Names : file'[x] = IF x = n THEN [letter |-> call[c].letter, is |-> "unread"] ELSE file[x]
    BY <1>2, <2>2 DEF Stored, InboxTypeOK
  <2>5. file'[n] \notin {Absent, Empty}
    BY <2>2, <2>4 DEF Absent, Empty
  <2> HIDE DEF n
  <2>6. \A x \in Names : Untouched(x) /\ file'[x] \in {Absent, Empty} => Spares(c, x)
    BY <2>1, <2>3, <2>5, NoCallState DEF Spares, Untouched
  <2>7. \A d \in Calls \ {c}, x \in Names : Writes(d, x) => file'[x] = Empty
    BY <2>2, <2>4 DEF WriteInv
  <2>8. \A x \in Names : file'[x] = Absent => file[x] = Absent
    BY <2>4, <2>5
  <2> QED
    BY <2>1, <2>6, <2>7, <2>8, NoCallState, WriteKept
<1>3. ASSUME NEW c \in Calls, NEW n \in Names, MarkRead(c, n) PROVE WriteInv'
  <2>1. UNCHANGED <<file, tmp, sent, marked, together>>
    BY <1>3 DEF MarkRead
  <2> QED
    BY <1>3, <2>1, MarkReadFacts, WriteQuiet DEF Spares, Untouched
<1>4. ASSUME NEW c \in Calls, NEW n \in Names, Look(c, n) PROVE WriteInv'
  <2>1. UNCHANGED <<file, tmp, sent, marked, together>>
    BY <1>4 DEF Look
  <2>2. file[n].is = "unread" => file[n] \notin {Absent, Empty}
    BY DEF Absent, Empty
  <2> QED
    BY <1>4, <2>1, <2>2, LookFacts, WriteQuiet DEF Spares, Untouched
<1>5. ASSUME NEW c \in Calls, ReadText(c) PROVE WriteInv'
  <2>1. UNCHANGED <<file, tmp, sent, marked, together>> /\ Marking(c)
    BY <1>5 DEF ReadText, Marking
  <2> QED
    BY <1>5, <2>1, ReadTextFacts, CountedFacts, WriteQuiet DEF Spares, Untouched, Marks
<1>6. ASSUME NEW c \in Calls, OpenTmp(c) PROVE WriteInv'
  <2>1. UNCHANGED <<file, sent, marked>> /\ Marking(c) /\ call[c].name \in Names
    BY <1>6 DEF OpenTmp, Marking, MarkInv
  <2>2. \A x \in Names \ {call[c].name} : tmp'[x] = tmp[x] /\ (x \in together' => x \in together)
    BY <1>6, <2>1 DEF OpenTmp, InboxTypeOK
  <2>3. \A x \in Names : Untouched(x) => Spares(c, x)
    BY <1>6, <2>1, <2>2, OpenTmpFacts DEF Spares, Untouched, Marks
  <2> QED
    BY <1>6, <2>1, <2>3, OpenTmpFacts, WriteKept DEF WriteInv
<1>7. ASSUME NEW c \in Calls, Put(c) PROVE WriteInv'
  <2> DEFINE n == call[c].name
             new == [letter |-> call[c].letter, is |-> "read"]
  <2>1. UNCHANGED <<sent, marked, together>> /\ Marking(c) /\ n \in Names /\ Marks(c, n)
    BY <1>7 DEF Put, Marking, MarkInv, Marks
  <2>2. \A x \in Names : x # n => file'[x] = file[x] /\ tmp'[x] = tmp[x]
    BY <1>7, <2>1 DEF Put, InboxTypeOK
  <2>3. file'[n] = file[n] \/ file'[n] = new
    BY <1>7, <2>1 DEF Put, InboxTypeOK
  <2>4. new \notin {Absent, Empty}
    BY DEF Absent, Empty
  <2> HIDE DEF n, new
  <2>5. \A x \in Names : Untouched(x) => x # n
    BY <2>1 DEF Untouched
  <2>6. \A x \in Names : Untouched(x) => Spares(c, x)
    BY <1>7, <2>1, <2>2, <2>5, PutFacts DEF Spares, Untouched, n
  <2>7. \A x \in Names : file'[x] = Absent => file[x] = Absent
    BY <2>2, <2>3, <2>4
  <2>8. \A d \in Calls \ {c}, x \in Names : Writes(d, x) => file'[x] = Empty
    BY <2>2, <2>5 DEF WriteInv
  <2> QED
    BY <1>7, <2>6, <2>7, <2>8, PutFacts, WriteKept
<1>8. ASSUME NEW c \in Calls, Replace(c) PROVE WriteInv'
  <2> DEFINE n == call[c].name
  <2>1. /\ UNCHANGED <<sent, marked, together>> /\ Marking(c) /\ n \in Names /\ Marks(c, n)
        /\ tmp[n] # Absent
    BY <1>8 DEF Replace, Marking, MarkInv, Marks
  <2>2. \A x \in Names : x # n => file'[x] = file[x] /\ tmp'[x] = tmp[x]
    BY <1>8, <2>1 DEF Replace, InboxTypeOK
  <2>3. file'[n] = tmp[n]
    BY <1>8, <2>1 DEF Replace, InboxTypeOK
  <2>4. Others(c) /\ call'[c] = Counted(call[c])
    BY <1>8, MovedFacts
  <2>9. /\ call'[c].step = "look" /\ call'[c].counted = call[c].counted \cup {n}
        /\ call'[c].owed = {}
    BY <2>4, CountedFacts
  <2> HIDE DEF n
  <2>5. \A x \in Names : Untouched(x) => x # n
    BY <2>1 DEF Untouched
  <2>6. \A x \in Names : Untouched(x) => Spares(c, x)
    BY <2>1, <2>2, <2>5, <2>9 DEF Spares, Untouched
  <2>7. \A x \in Names : file'[x] = Absent => file[x] = Absent
    BY <2>1, <2>2, <2>3
  <2>8. \A d \in Calls \ {c}, x \in Names : Writes(d, x) => file'[x] = Empty
    BY <2>2, <2>5 DEF WriteInv
  <2> QED
    BY <2>4, <2>6, <2>7, <2>8, <2>9, WriteKept
<1>9. ASSUME NEW c \in Calls, Finish(c), UNCHANGED <<file, tmp, sent, together>>,
             marked' \subseteq marked \cup call[c].counted
      PROVE  WriteInv'
  <2>1. Others(c) /\ call'[c] = NoCall
    BY <1>9, FinishFacts
  <2> QED
    BY <1>9, <2>1, NoCallState, WriteQuiet DEF Spares, Untouched
<1>10. ASSUME NEW c \in Calls, NEW only, NEW since, ListMessages(c, only, since) PROVE WriteInv'
  <2>1. UNCHANGED <<file, tmp, sent, marked, together>>
    BY <1>10 DEF ListMessages
  <2>2. /\ Others(c) /\ call'[c].step = "list" /\ call'[c].counted = {}
        /\ \A n \in call'[c].owed : \E m \in sent : m[2] = n
    BY <1>10, ListMessagesFacts
  <2> QED
    BY <2>1, <2>2, WriteQuiet DEF Spares, Untouched
<1>11. ASSUME NEW c \in Calls, NEW n \in Names, ListNext(c, n) PROVE WriteInv'
  <2>1. UNCHANGED <<file, tmp, sent, marked, together>>
    BY <1>11 DEF ListNext
  <2>2. Readable(n) => file[n] \notin {Absent, Empty}
    BY DEF Absent, Empty, Readable
  <2>3. /\ Others(c) /\ call'[c].step = "list" /\ call'[c].owed = call[c].owed
        /\ \A x \in call'[c].counted : x \in call[c].counted \/ (x = n /\ Readable(n))
    BY <1>11, ListNextFacts DEF Passes
  <2> QED
    BY <2>1, <2>2, <2>3, WriteQuiet DEF Spares, Untouched
<1>12. CASE InboxRestart
  BY <1>12, NoCallState DEF InboxRestart, WriteInv, Untouched, Writes, Marks, Marking
<1> QED
  BY <1>1, <1>2, <1>3, <1>4, <1>5, <1>6, <1>7, <1>8, <1>9, <1>10, <1>11, <1>12
  DEF InboxNext, Serve, SendMessage, RequestReview, WriteShort, Texts, CheckMessages, RecentActivity, ReplaceFails,
      MarkMessageRead, Listed, WriteFails

-----------------------------------------------------------------------------
(* What the steps that touch a file do to it. *)

LEMMA OpenedFile ==
  ASSUME InboxInv, NEW c \in Calls, NEW n \in Names, Opened(c, n), file[n] = Absent
  PROVE  /\ Untouched(n)
         /\ \A x \in Names : file'[x] = IF x = n THEN Empty ELSE file[x]
  BY DEF InboxInv, InboxTypeOK, WriteInv, Opened

LEMMA SentFile ==
  ASSUME InboxInv, NEW c \in Calls, NEW as \in Texts, Stored(c, as), NEW n, n = call[c].name
  PROVE  /\ Others(c) /\ call'[c] = NoCall /\ \A d \in Calls \ {c} : call'[d] = call[d]
         /\ n \in Names /\ call[c].letter \in Letters /\ Untouched(n)
         /\ UNCHANGED <<tmp, marked, together>>
         /\ sent' = sent \cup {<<call[c].letter, n>>}
         /\ \A x \in Names :
              file'[x] = IF x = n THEN [letter |-> call[c].letter, is |-> "unread"] ELSE file[x]
  BY FinishFacts DEF InboxInv, InboxTypeOK, WriteInv, Writes, Stored

LEMMA SentText ==
  ASSUME InboxTypeOK, NEW c \in Calls, NEW as, Stored(c, as)
  PROVE  \A x \in Names : x # call[c].name => text'[x] = text[x]
  BY DEF InboxTypeOK, Stored

LEMMA OpenTmpFile ==
  ASSUME InboxInv, NEW c \in Calls, OpenTmp(c), NEW n, n = call[c].name
  PROVE  /\ n \in Names /\ UNCHANGED <<file, sent, marked, faults>>
         /\ \A x \in Names : tmp'[x] = IF x = n THEN Empty ELSE tmp[x]
         /\ together \subseteq together' /\ together' \subseteq together \cup {n}
         /\ n \notin together' => \A d \in Calls : ~Busy(d, n)
  BY DEF InboxInv, InboxTypeOK, MarkInv, Marking, OpenTmp, Busy

LEMMA PutFile ==
  ASSUME InboxInv, NEW c \in Calls, Put(c), NEW n, n = call[c].name
  PROVE  /\ n \in Names /\ call[c].letter \in Letters
         /\ UNCHANGED <<sent, marked, together, faults>>
         /\ \A x \in Names :
              /\ tmp'[x] = IF x = n /\ call[c].at = "tmp"
                           THEN [letter |-> call[c].letter, is |-> "read"] ELSE tmp[x]
              /\ file'[x] = IF x = n /\ call[c].at = "file"
                            THEN [letter |-> call[c].letter, is |-> "read"] ELSE file[x]
  BY DEF InboxInv, InboxTypeOK, MarkInv, Marking, Put

LEMMA ReplacedFile ==
  ASSUME InboxInv, NEW c \in Calls, Replace(c), NEW n, n = call[c].name
  PROVE  /\ n \in Names /\ tmp[n] # Absent
         /\ UNCHANGED <<sent, marked, together, faults>>
         /\ \A x \in Names :
              /\ tmp'[x] = IF x = n THEN Absent ELSE tmp[x]
              /\ file'[x] = IF x = n THEN tmp[n] ELSE file[x]
  BY DEF InboxInv, InboxTypeOK, MarkInv, Marking, Replace

-----------------------------------------------------------------------------
(* What is marked is not unread. *)

\* Only a name that nobody has seen becomes unread.
LEMMA MarkKept ==
  ASSUME MarkInv, NEW c \in Calls, Others(c),
         \A n \in Names : file'[n].is = "unread" => file[n].is = "unread" \/ Untouched(n),
         \A n \in Names : tmp'[n].is # "unread",
         \A n \in marked' : n \in marked \/ (file[n].is # "unread" /\ ~Untouched(n)),
         marked \subseteq Names, marked' \subseteq Names,
         \A d \in Calls : call[d].counted \subseteq Names,
         call'[c].step \in {"text", "open", "put", "replace"} => call'[c].name \in Names,
         call'[c].step \in {"open", "put", "replace"} => call'[c].letter \in Letters,
         call'[c].step \in {"text", "open", "put", "replace", "look"} =>
           \A n \in call'[c].counted : n \in Names /\ file'[n].is # "unread"
  PROVE  MarkInv'
<1>1. MarkedIsRead'
  BY DEF MarkInv, MarkedIsRead, Untouched
<1>2. ASSUME NEW d \in Calls, d # c, Marking(d)' \/ call'[d].step = "look",
             NEW n \in call'[d].counted
      PROVE  file'[n].is # "unread"
  <2>1. n \in Names /\ n \in call[d].counted /\ ~Untouched(n) /\ file[n].is # "unread"
    BY <1>2 DEF MarkInv, Marking, Others, Untouched
  <2> QED
    BY <2>1
<1> QED
  BY <1>1, <1>2 DEF MarkInv, Marking, Others

LEMMA MarkStep ==
  ASSUME InboxInv, InboxNext
  PROVE  MarkInv'
<1> USE DEF InboxInv
<1>a. marked \subseteq Names /\ \A d \in Calls : call[d].counted \subseteq Names
  BY DEF InboxTypeOK, CallStates
<1>b. Empty.is = "empty" /\ Absent.is = "absent"
  BY DEF Empty, Absent
<1>1. ASSUME NEW c \in Calls, NEW s \in Seconds, WriteMessage(c, s) PROVE MarkInv'
  <2>1. ASSUME NEW k \in 0..MaxAttempts, file[<<s, k>>] = Absent, Opened(c, <<s, k>>)
        PROVE  MarkInv'
    <3>1. <<s, k>> \in Names /\ UNCHANGED <<tmp, marked>>
      BY <1>1 DEF Names, WriteMessage
    <3>2. \A n \in Names : file'[n].is = "unread" => file[n].is = "unread"
      BY <1>b, <2>1, <3>1, OpenedFile
    <3>3. Others(c) /\ call'[c].step = "write"
      BY <2>1, <3>1, OpenedFacts
    <3> QED
      BY <1>a, <3>1, <3>2, <3>3, MarkKept DEF MarkInv
  <2>2. CASE UNCHANGED <<letters, file, call>>
    BY <1>1, <2>2 DEF WriteMessage, MarkInv, MarkedIsRead, Marking
  <2> QED
    BY <1>1, <2>1, <2>2 DEF WriteMessage
<1>2. ASSUME NEW c \in Calls, NEW as \in Texts, Stored(c, as) PROVE MarkInv'
  <2>1. \A n \in Names : file'[n].is = "unread" => file[n].is = "unread" \/ Untouched(n)
    BY <1>2, SentFile
  <2>2. UNCHANGED <<tmp, marked>> /\ Others(c) /\ call'[c].step = "idle"
    BY <1>2, SentFile, NoCallState
  <2> QED
    BY <1>a, <2>1, <2>2, MarkKept DEF MarkInv
<1>3. ASSUME NEW c \in Calls, NEW n \in Names, MarkRead(c, n) PROVE MarkInv'
  <2>1. UNCHANGED <<file, tmp, marked>>
    BY <1>3 DEF MarkRead
  <2> QED
    BY <1>a, <1>3, <2>1, MarkReadFacts, MarkKept DEF MarkInv
<1>4. ASSUME NEW c \in Calls, NEW n \in Names, Look(c, n) PROVE MarkInv'
  <2>1. UNCHANGED <<file, tmp, marked>> /\ call[c].step = "look"
    BY <1>4 DEF Look
  <2> QED
    BY <1>a, <1>4, <2>1, LookFacts, MarkKept DEF MarkInv
<1>5. ASSUME NEW c \in Calls, ReadText(c) PROVE MarkInv'
  <2>1. UNCHANGED <<file, tmp, marked>> /\ Marking(c) /\ call[c].name \in Names
    BY <1>5 DEF ReadText, Marking, MarkInv
  <2>2. Readable(call[c].name) => file[call[c].name].letter \in Letters
    BY <2>1, Kinds DEF Readable, InboxTypeOK, Whole
  <2>3. /\ Others(c) /\ call[c].counted \subseteq Names
        /\ \A n \in call[c].counted : file[n].is # "unread"
    BY <1>5, <2>1, ReadTextFacts DEF MarkInv, InboxTypeOK, CallStates
  <2>4. /\ call'[c].step \in {"open", "look"}
        /\ call'[c].step = "open" => call'[c].name \in Names /\ call'[c].letter \in Letters
        /\ \A n \in call'[c].counted : n \in Names /\ file[n].is # "unread"
    BY <1>5, <2>1, <2>2, <2>3, ReadTextFacts, CountedFacts
  <2> HIDE DEF InboxInv
  <2>5. MarkInv
    BY DEF InboxInv
  <2> QED
    BY <1>a, <2>1, <2>3, <2>4, <2>5, MarkKept DEF MarkInv
<1>6. ASSUME NEW c \in Calls, OpenTmp(c) PROVE MarkInv'
  <2>1. UNCHANGED <<file, marked>> /\ Marking(c) /\ call[c].step = "open"
    BY <1>6 DEF OpenTmp, Marking
  <2>2. \A n \in Names : tmp'[n].is # "unread"
    BY <1>b, <1>6, OpenTmpFile DEF MarkInv
  <2> QED
    BY <1>a, <1>6, <2>1, <2>2, OpenTmpFacts, MarkKept DEF MarkInv
<1>7. ASSUME NEW c \in Calls, Put(c) PROVE MarkInv'
  <2>1. /\ UNCHANGED marked /\ Marking(c) /\ call[c].step = "put"
        /\ \A n \in Names : tmp'[n].is # "unread"
        /\ \A n \in Names : file'[n].is = "unread" => file[n].is = "unread"
    BY <1>7, PutFile DEF Put, Marking, MarkInv
  <2> QED
    BY <1>a, <1>7, <2>1, PutFacts, MarkKept DEF MarkInv
<1>8. ASSUME NEW c \in Calls, Replace(c) PROVE MarkInv'
  <2> DEFINE n == call[c].name
  <2>1. /\ UNCHANGED marked /\ Marking(c) /\ n \in Names /\ file'[n].is # "unread"
        /\ \A x \in Names : tmp'[x].is # "unread"
        /\ \A x \in Names : file'[x].is = "unread" => file[x].is = "unread"
    <3>1. UNCHANGED marked /\ Marking(c)
      BY <1>8 DEF Replace, Marking
    <3>2. /\ n \in Names
          /\ \A x \in Names :
               /\ tmp'[x] = IF x = n THEN Absent ELSE tmp[x]
               /\ file'[x] = IF x = n THEN tmp[n] ELSE file[x]
      BY <1>8, ReplacedFile
    <3> QED
      BY <1>b, <3>1, <3>2 DEF MarkInv
  <2>2. /\ Others(c) /\ call'[c].step = "look" /\ call'[c].counted = call[c].counted \cup {n}
    BY <1>8, MovedFacts, CountedFacts
  <2> HIDE DEF n
  <2>3. \A x \in call'[c].counted : x \in Names /\ file'[x].is # "unread"
    BY <1>a, <2>1, <2>2 DEF MarkInv
  <2> QED
    BY <1>a, <2>1, <2>2, <2>3, MarkKept DEF MarkInv
<1>9. ASSUME NEW c \in Calls, Finish(c), UNCHANGED <<file, tmp>>,
             marked' = marked \/ (call[c].step = "look" /\ marked' = marked \cup call[c].counted)
      PROVE  MarkInv'
  <2>1. Others(c) /\ call'[c].step = "idle"
    BY <1>9, FinishFacts, NoCallState
  <2>2. \A n \in marked' : n \in marked \/ (file[n].is # "unread" /\ ~Untouched(n))
    BY <1>9 DEF MarkInv, Untouched
  <2>3. marked' \subseteq Names
    BY <1>a, <1>9
  <2> QED
    BY <1>a, <1>9, <2>1, <2>2, <2>3, MarkKept DEF MarkInv
<1>10. ASSUME NEW c \in Calls, NEW only, NEW since, ListMessages(c, only, since) PROVE MarkInv'
  <2>1. UNCHANGED <<file, tmp, marked>>
    BY <1>10 DEF ListMessages
  <2>2. Others(c) /\ call'[c].step = "list"
    BY <1>10, ListMessagesFacts
  <2> QED
    BY <1>a, <2>1, <2>2, MarkKept DEF MarkInv
<1>11. ASSUME NEW c \in Calls, NEW n \in Names, ListNext(c, n) PROVE MarkInv'
  <2>1. UNCHANGED <<file, tmp, marked>>
    BY <1>11 DEF ListNext
  <2>2. Others(c) /\ call'[c].step = "list"
    BY <1>11, ListNextFacts
  <2> QED
    BY <1>a, <2>1, <2>2, MarkKept DEF MarkInv
<1>12. CASE InboxRestart
  BY <1>12, NoCallState DEF InboxRestart, MarkInv, MarkedIsRead, Marking
<1> QED
  BY <1>1, <1>2, <1>3, <1>4, <1>5, <1>6, <1>7, <1>8, <1>9, <1>10, <1>11, <1>12
  DEF InboxNext, Serve, SendMessage, RequestReview, WriteShort, Texts, CheckMessages, RecentActivity, ReplaceFails,
      MarkMessageRead, Listed, WriteFails

-----------------------------------------------------------------------------
(* A name has one letter. *)

LEMMA HoldsKept ==
  ASSUME NEW n \in Names, NEW m, Holds(n, m), NEW c \in Calls, Others(c),
         file'[n] \in {file[n], Empty} \/ (file'[n] # Absent /\ file'[n].letter = m),
         tmp'[n] \in {tmp[n], Absent, Empty} \/ tmp'[n].letter = m,
         call'[c].step \in {"open", "put", "replace"} /\ call'[c].name = n =>
           call'[c].letter = m
  PROVE  Holds(n, m)'
<1>1. Absent # Empty
  BY DEF Absent, Empty
<1> QED
  BY <1>1 DEF Holds, Others

LEMMA LetterStep ==
  ASSUME InboxInv, InboxNext
  PROVE  LetterInv'
<1> USE DEF InboxInv
<1>a. \A m \in sent : m[2] \in Names
  BY DEF InboxTypeOK
<1>b. Absent # Empty
  BY DEF Absent, Empty
<1>1. ASSUME NEW c \in Calls, NEW s \in Seconds, WriteMessage(c, s) PROVE LetterInv'
  <2>1. ASSUME NEW k \in 0..MaxAttempts, file[<<s, k>>] = Absent, Opened(c, <<s, k>>)
        PROVE  LetterInv'
    <3>1. <<s, k>> \in Names /\ UNCHANGED <<tmp, sent>>
      BY <1>1 DEF Names, WriteMessage
    <3>2. Others(c) /\ call'[c].step = "write"
      BY <2>1, <3>1, OpenedFacts
    <3>3. \A x \in Names : file'[x] \in {file[x], Empty}
      BY <2>1, <3>1, OpenedFile
    <3> QED
      BY <1>a, <3>1, <3>2, <3>3, HoldsKept DEF LetterInv
  <2>2. CASE UNCHANGED <<letters, file, call>>
    BY <1>1, <2>2 DEF WriteMessage, LetterInv, Holds
  <2> QED
    BY <1>1, <2>1, <2>2 DEF WriteMessage
<1>2. ASSUME NEW c \in Calls, NEW as \in Texts, Stored(c, as) PROVE LetterInv'
  <2>a. PICK n, l : n = call[c].name /\ l = call[c].letter
    OBVIOUS
  <2>1. /\ n \in Names /\ Untouched(n) /\ UNCHANGED tmp /\ sent' = sent \cup {<<l, n>>}
        /\ Others(c) /\ call'[c].step = "idle"
        /\ \A x \in Names : file'[x] = IF x = n THEN [letter |-> l, is |-> "unread"] ELSE file[x]
    <3>1. n \in Names /\ Untouched(n) /\ UNCHANGED tmp /\ Others(c) /\ call'[c] = NoCall
      BY <1>2, <2>a, SentFile
    <3>2. sent' = sent \cup {<<l, n>>}
      BY <1>2, <2>a DEF Stored
    <3>3. file' = [file EXCEPT ![n] = [letter |-> l, is |-> "unread"]]
      BY <1>2, <2>a DEF Stored
    <3>4. file \in [Names -> Whole \cup {Absent, Empty}]
      BY DEF InboxTypeOK
    <3> HIDE DEF InboxInv
    <3> QED
      BY <3>1, <3>2, <3>3, <3>4, NoCallState
  <2>2. \A m \in sent : m[2] # n
    BY <2>1 DEF Untouched
  <2>3. ASSUME NEW m \in sent PROVE Holds(m[2], m[1])'
    BY <1>a, <2>1, <2>2, HoldsKept DEF LetterInv
  <2>4. Holds(n, l)'
    <3>1. file'[n].letter = l /\ file'[n] # Absent
      BY <2>1 DEF Absent
    <3>2. tmp'[n] = Absent /\ \A d \in Calls : ~Marks(d, n)
      BY <2>1 DEF Untouched
    <3> QED
      BY <2>1, <3>1, <3>2 DEF Holds, Others, Marks, Marking
  <2>5. ASSUME NEW m \in sent' PROVE Holds(m[2], m[1])'
    <3>1. CASE m \in sent
      BY <2>3, <3>1
    <3>2. CASE m = <<l, n>>
      <4>1. m[1] = l /\ m[2] = n
        BY <3>2
      <4> QED
        BY <2>4, <4>1 DEF Holds
    <3> QED
      BY <2>1, <3>1, <3>2
  <2> QED
    BY <2>5 DEF LetterInv
<1>3. ASSUME NEW c \in Calls, UNCHANGED <<file, tmp, sent>>, Others(c),
             call'[c].step \notin {"open", "put", "replace"}
      PROVE  LetterInv'
  BY <1>a, <1>3, HoldsKept DEF LetterInv
<1>4. ASSUME NEW c \in Calls, NEW n \in Names, MarkRead(c, n) \/ Look(c, n) \/ ListNext(c, n)
      PROVE  LetterInv'
  <2>1. UNCHANGED <<file, tmp, sent>>
    BY <1>4 DEF MarkRead, Look, ListNext
  <2>2. Others(c) /\ call'[c].step \notin {"open", "put", "replace"}
    BY <1>4, MarkReadFacts, LookFacts, ListNextFacts
  <2> QED
    BY <1>3, <2>1, <2>2
<1>5. ASSUME NEW c \in Calls, ReadText(c) PROVE LetterInv'
  <2>1. UNCHANGED <<file, tmp, sent>> /\ Others(c)
    BY <1>5, ReadTextFacts DEF ReadText
  <2>2. CASE call'[c] = Counted(call[c])
    BY <1>3, <2>1, <2>2, CountedFacts
  <2>3. CASE /\ Readable(call[c].name) /\ call'[c].letter = file[call[c].name].letter
             /\ call'[c].name = call[c].name
    <3>1. Readable(call[c].name) => file[call[c].name] # Empty
      BY DEF Readable, Empty
    <3>2. \A n \in Names : \A m : Holds(n, m) /\ call'[c].name = n => call'[c].letter = m
      BY <2>3, <3>1 DEF Holds
    <3> QED
      BY <1>a, <2>1, <3>2, HoldsKept DEF LetterInv
  <2> QED
    BY <1>5, <2>2, <2>3, ReadTextFacts
<1>6. ASSUME NEW c \in Calls, OpenTmp(c) PROVE LetterInv'
  <2>1. /\ UNCHANGED <<file, sent>> /\ Others(c) /\ call[c].step = "open"
        /\ call'[c].name = call[c].name /\ call'[c].letter = call[c].letter
    BY <1>6, OpenTmpFacts DEF OpenTmp
  <2>3. \A x \in Names : tmp'[x] \in {tmp[x], Empty}
    BY <1>6, OpenTmpFile
  <2>2. \A n \in Names : \A m : Holds(n, m) /\ call'[c].name = n => call'[c].letter = m
    BY <2>1 DEF Holds
  <2> QED
    BY <1>a, <2>1, <2>2, <2>3, HoldsKept DEF LetterInv
<1>7. ASSUME NEW c \in Calls, Put(c) PROVE LetterInv'
  <2> DEFINE new == [letter |-> call[c].letter, is |-> "read"]
  <2>1. /\ UNCHANGED sent /\ Others(c) /\ call[c].step = "put"
        /\ call'[c].name = call[c].name /\ call'[c].letter = call[c].letter
    BY <1>7, PutFacts DEF Put
  <2>5. \A x \in Names : /\ tmp'[x] = tmp[x] \/ (x = call[c].name /\ tmp'[x] = new)
                         /\ file'[x] = file[x] \/ (x = call[c].name /\ file'[x] = new)
    BY <1>7, PutFile
  <2>2. new # Absent /\ new.letter = call[c].letter
    BY DEF Absent
  <2> HIDE DEF new
  <2>3. \A n \in Names : \A m : Holds(n, m) /\ call[c].name = n => call[c].letter = m
    BY <2>1 DEF Holds
  <2>4. ASSUME NEW n \in Names, NEW m, Holds(n, m) PROVE Holds(n, m)'
    <3>1. n = call[c].name => call[c].letter = m
      BY <2>3, <2>4
    <3>2. file'[n] = file[n] \/ (file'[n] # Absent /\ file'[n].letter = m)
      BY <2>2, <2>5, <3>1
    <3>3. tmp'[n] = tmp[n] \/ tmp'[n].letter = m
      BY <2>2, <2>5, <3>1
    <3> QED
      BY <2>1, <2>4, <3>1, <3>2, <3>3, HoldsKept
  <2> QED
    BY <1>a, <2>1, <2>4 DEF LetterInv
<1>8. ASSUME NEW c \in Calls, Replace(c) PROVE LetterInv'
  <2> DEFINE n == call[c].name
  <2>1. /\ UNCHANGED sent /\ n \in Names /\ tmp[n] # Absent
        /\ \A x \in Names : /\ tmp'[x] = IF x = n THEN Absent ELSE tmp[x]
                            /\ file'[x] = IF x = n THEN tmp[n] ELSE file[x]
    BY <1>8, ReplacedFile
  <2>2. Others(c) /\ call'[c].step = "look"
    BY <1>8, MovedFacts, CountedFacts
  <2> HIDE DEF n
  <2>3. ASSUME NEW x \in Names, NEW m, Holds(x, m) PROVE Holds(x, m)'
    <3>1. x = n => tmp[n] = Empty \/ tmp[n].letter = m
      BY <2>1, <2>3 DEF Holds
    <3> QED
      BY <2>1, <2>2, <2>3, <3>1, HoldsKept
  <2> QED
    BY <1>a, <2>1, <2>3 DEF LetterInv
<1>9. ASSUME NEW c \in Calls, Finish(c), UNCHANGED <<file, tmp, sent>> PROVE LetterInv'
  BY <1>3, <1>9, FinishFacts, NoCallState
<1>10. ASSUME NEW c \in Calls, NEW only, NEW since, ListMessages(c, only, since) PROVE LetterInv'
  <2>1. UNCHANGED <<file, tmp, sent>>
    BY <1>10 DEF ListMessages
  <2>2. Others(c) /\ call'[c].step = "list"
    BY <1>10, ListMessagesFacts
  <2> QED
    BY <1>3, <2>1, <2>2
<1>11. CASE InboxRestart
  BY <1>11, NoCallState DEF InboxRestart, LetterInv, Holds
<1> QED
  BY <1>1, <1>2, <1>4, <1>5, <1>6, <1>7, <1>8, <1>9, <1>10, <1>11
  DEF InboxNext, Serve, SendMessage, RequestReview, WriteShort, Texts, CheckMessages, RecentActivity, ReplaceFails,
      MarkMessageRead, Listed, WriteFails

-----------------------------------------------------------------------------
(* A name that no two calls mark at one time. *)

\* A step by which no call comes to mark the name.
LEMMA AloneKept ==
  ASSUME NEW n \in Names, Alone(n), NEW c \in Calls,
         Others(c), \A d \in Calls \ {c} : Busy(d, n) => call'[d].at = call[d].at,
         call'[c].step \notin {"put", "replace"},
         tmp'[n] = tmp[n] \/ \A d \in Calls \ {c} : ~Busy(d, n),
         file'[n] = file[n] \/ file'[n] \in Whole \/ ~\E m \in sent' : m[2] = n,
         \A m \in sent' : m[2] = n => m \in sent \/ file'[n] \in Whole
  PROVE  Alone(n)'
<1>1. \A d \in Calls : Busy(d, n)' => d # c /\ Busy(d, n) /\ call'[d].step = call[d].step
  BY DEF Busy, Others
<1>2. \A d, e \in Calls : Busy(d, n)' /\ Busy(e, n)' => d = e
  BY <1>1 DEF Alone
<1>3. \A d \in Calls : Busy(d, n)' /\ call'[d].step = "put" => call'[d].at = "tmp"
  BY <1>1 DEF Alone
<1>4. \A d \in Calls : Busy(d, n)' /\ call'[d].step = "replace" => tmp'[n] \in Whole
  BY <1>1 DEF Alone
<1>5. (\E m \in sent' : m[2] = n) => file'[n] \in Whole
  BY DEF Alone
<1> QED
  BY <1>2, <1>3, <1>4, <1>5 DEF Alone

LEMMA AloneStep ==
  ASSUME InboxInv, InboxNext
  PROVE  AloneInv'
<1> USE DEF InboxInv
<1>1. ASSUME NEW c \in Calls, NEW s \in Seconds, WriteMessage(c, s) PROVE AloneInv'
  <2>1. ASSUME NEW k \in 0..MaxAttempts, file[<<s, k>>] = Absent, Opened(c, <<s, k>>)
        PROVE  AloneInv'
    <3>1. PICK n \in Names : n = <<s, k>>
      BY <1>1 DEF Names
    <3>2. /\ UNCHANGED <<tmp, sent, together>> /\ Untouched(n)
          /\ \A x \in Names : file'[x] = IF x = n THEN Empty ELSE file[x]
      BY <1>1, <2>1, <3>1, OpenedFile DEF WriteMessage
    <3>3. /\ Others(c) /\ \A d \in Calls \ {c} : call'[d] = call[d]
          /\ call'[c].step = "write"
      BY <2>1, <3>1, OpenedFacts
    <3>4. ~\E m \in sent' : m[2] = n
      BY <3>2 DEF Untouched
    <3> QED
      BY <3>2, <3>3, <3>4, AloneKept DEF AloneInv
  <2>2. CASE UNCHANGED <<letters, file, call>>
    BY <1>1, <2>2 DEF WriteMessage, AloneInv, Alone, Busy
  <2> QED
    BY <1>1, <2>1, <2>2 DEF WriteMessage
<1>2. ASSUME NEW c \in Calls, NEW as \in Texts, Stored(c, as) PROVE AloneInv'
  <2>1. PICK n : n = call[c].name
    OBVIOUS
  <2> HIDE DEF InboxTypeOK, MarkInv, WriteInv
  <2>2. /\ n \in Names /\ UNCHANGED <<tmp, together>>
        /\ sent' = sent \cup {<<call[c].letter, n>>}
        /\ Others(c) /\ \A d \in Calls \ {c} : call'[d] = call[d]
        /\ call'[c].step = "idle" /\ call[c].letter \in Letters
    BY <1>2, <2>1, SentFile, NoCallState
  <2>3. \A x \in Names : x # n => file'[x] = file[x]
    <3>1. file \in [Names -> Whole \cup {Absent, Empty}]
      BY DEF InboxTypeOK
    <3> HIDE DEF InboxInv
    <3> QED
      BY <1>2, <2>1, <3>1 DEF Stored
  <2>4. file'[n] \in Whole
    <3>1. file'[n] = [letter |-> call[c].letter, is |-> "unread"]
      BY <1>2, <2>1, <2>2, SentFile
    <3> QED
      BY <2>2, <3>1 DEF Whole
  <2>5. \A m \in sent' : m \in sent \/ m[2] = n
    BY <2>2
  <2> QED
    BY <2>2, <2>3, <2>4, <2>5, AloneKept DEF AloneInv
<1>3. ASSUME NEW c \in Calls, UNCHANGED <<file, tmp, sent, together>>, Others(c),
             \A d \in Calls \ {c} : call'[d] = call[d],
             call'[c].step \notin {"put", "replace"}
      PROVE  AloneInv'
  BY <1>3, AloneKept DEF AloneInv
<1>4. ASSUME NEW c \in Calls, NEW n \in Names, MarkRead(c, n) \/ Look(c, n) \/ ListNext(c, n)
      PROVE  AloneInv'
  <2>1. UNCHANGED <<file, tmp, sent, together>>
    BY <1>4 DEF MarkRead, Look, ListNext
  <2>2. /\ Others(c) /\ \A d \in Calls \ {c} : call'[d] = call[d]
        /\ call'[c].step \notin {"put", "replace"}
    BY <1>4, MarkReadFacts, LookFacts, ListNextFacts
  <2> QED
    BY <1>3, <2>1, <2>2
<1>5. ASSUME NEW c \in Calls, ReadText(c) PROVE AloneInv'
  <2>1. UNCHANGED <<file, tmp, sent, together>>
    BY <1>5 DEF ReadText
  <2>2. /\ Others(c) /\ \A d \in Calls \ {c} : call'[d] = call[d]
        /\ call'[c].step \notin {"put", "replace"}
    BY <1>5, ReadTextFacts, CountedFacts
  <2> QED
    BY <1>3, <2>1, <2>2
<1>6. ASSUME NEW c \in Calls, OpenTmp(c) PROVE AloneInv'
  <2>1. PICK n : n = call[c].name
    OBVIOUS
  <2>2. /\ n \in Names /\ UNCHANGED <<file, sent>> /\ together \subseteq together'
        /\ \A x \in Names : tmp'[x] = IF x = n THEN Empty ELSE tmp[x]
        /\ n \notin together' => \A d \in Calls : ~Busy(d, n)
    BY <1>6, <2>1, OpenTmpFile
  <2>3. /\ Others(c) /\ \A d \in Calls \ {c} : call'[d] = call[d]
        /\ call'[c].step = "put" /\ call'[c].name = n /\ call'[c].at = "tmp"
        /\ call[c].step = "open"
    BY <1>6, <2>1, OpenTmpFacts DEF OpenTmp
  <2>4. ASSUME NEW x \in Names \ together' PROVE Alone(x)'
    <3>1. \A d \in Calls : Busy(d, x)' =>
            (d = c /\ x = n) \/ (d # c /\ Busy(d, x) /\ x # n)
      BY <2>2, <2>3, <2>4 DEF Busy, Others
    <3>2. Alone(x)
      BY <2>2, <2>4 DEF AloneInv
    <3>3. \A d, e \in Calls : Busy(d, x)' /\ Busy(e, x)' => d = e
      BY <3>1, <3>2 DEF Alone
    <3>4. \A d \in Calls : Busy(d, x)' /\ call'[d].step = "put" => call'[d].at = "tmp"
      BY <2>3, <3>1, <3>2 DEF Alone
    <3>5. \A d \in Calls : Busy(d, x)' /\ call'[d].step = "replace" => tmp'[x] \in Whole
      BY <2>2, <2>3, <3>1, <3>2 DEF Alone
    <3>6. (\E m \in sent' : m[2] = x) => file'[x] \in Whole
      BY <2>2, <3>2 DEF Alone
    <3> QED
      BY <3>3, <3>4, <3>5, <3>6 DEF Alone
  <2> QED
    BY <2>4 DEF AloneInv
<1>7. ASSUME NEW c \in Calls, Put(c) PROVE AloneInv'
  <2>1. PICK n : n = call[c].name
    OBVIOUS
  <2> DEFINE new == [letter |-> call[c].letter, is |-> "read"]
  <2>2. /\ n \in Names /\ call[c].letter \in Letters /\ UNCHANGED <<sent, together>>
        /\ \A x \in Names :
             /\ tmp'[x] = IF x = n /\ call[c].at = "tmp" THEN new ELSE tmp[x]
             /\ file'[x] = IF x = n /\ call[c].at = "file" THEN new ELSE file[x]
    BY <1>7, <2>1, PutFile
  <2>3. new \in Whole
    BY <2>2 DEF Whole
  <2> HIDE DEF new
  <2>4. /\ Others(c) /\ \A d \in Calls \ {c} : call'[d] = call[d]
        /\ call'[c].step = "replace" /\ call'[c].name = n /\ call[c].step = "put"
    BY <1>7, <2>1, PutFacts DEF Put
  <2>5. ASSUME NEW x \in Names \ together' PROVE Alone(x)'
    <3>1. \A d \in Calls : Busy(d, x)' <=> Busy(d, x)
      BY <2>1, <2>4 DEF Busy, Others
    <3>2. Alone(x)
      BY <2>2, <2>5 DEF AloneInv
    <3>3. x = n => call[c].at = "tmp"
      BY <2>1, <2>4, <3>2 DEF Alone, Busy
    <3>4. tmp'[x] = tmp[x] \/ tmp'[x] \in Whole
      BY <2>2, <2>3
    <3>5. x = n => tmp'[x] \in Whole
      BY <2>2, <2>3, <3>3
    <3>6. \A d \in Calls : Busy(d, x)' /\ call'[d].step = "put" => call'[d].at = "tmp"
      BY <2>4, <3>1, <3>2 DEF Alone
    <3>7. \A d \in Calls : Busy(d, x)' /\ call'[d].step = "replace" => tmp'[x] \in Whole
      BY <2>4, <3>1, <3>2, <3>4, <3>5 DEF Alone, Busy
    <3>8. (\E m \in sent' : m[2] = x) => file'[x] \in Whole
      BY <2>2, <2>3, <3>2 DEF Alone
    <3> QED
      BY <3>1, <3>2, <3>6, <3>7, <3>8 DEF Alone
  <2> QED
    BY <2>5 DEF AloneInv
<1>8. ASSUME NEW c \in Calls, Replace(c) PROVE AloneInv'
  <2>1. PICK n : n = call[c].name
    OBVIOUS
  <2>2. /\ n \in Names /\ UNCHANGED <<sent, together>>
        /\ \A x \in Names : /\ tmp'[x] = IF x = n THEN Absent ELSE tmp[x]
                            /\ file'[x] = IF x = n THEN tmp[n] ELSE file[x]
    BY <1>8, <2>1, ReplacedFile
  <2>3. Others(c) /\ call'[c].step = "look" /\ Busy(c, n) /\ call[c].step = "replace"
    BY <1>8, <2>1, MovedFacts, CountedFacts DEF Busy, Replace
  <2>4. ASSUME NEW d \in Calls \ {c}, call[d].name # n PROVE call'[d].at = call[d].at
    BY <1>8, <2>1, <2>4, MovedFacts DEF Writers
  <2>5. ASSUME NEW x \in Names \ together' PROVE Alone(x)'
    <3>1. Alone(x)
      BY <2>2, <2>5 DEF AloneInv
    <3>2. x = n => tmp[n] \in Whole /\ \A d \in Calls \ {c} : ~Busy(d, x)
      BY <2>3, <3>1 DEF Alone
    <3>3. \A d \in Calls \ {c} : Busy(d, x) => call'[d].at = call[d].at
      BY <2>4, <3>2 DEF Busy
    <3>4. file'[x] = file[x] \/ file'[x] \in Whole
      BY <2>2, <3>2
    <3>5. tmp'[x] = tmp[x] \/ \A d \in Calls \ {c} : ~Busy(d, x)
      BY <2>2, <3>2
    <3> QED
      BY <2>2, <2>3, <3>1, <3>3, <3>4, <3>5, AloneKept
  <2> QED
    BY <2>5 DEF AloneInv
<1>9. ASSUME NEW c \in Calls, Finish(c), UNCHANGED <<file, tmp, sent, together>> PROVE AloneInv'
  BY <1>3, <1>9, FinishFacts, NoCallState
<1>10. ASSUME NEW c \in Calls, NEW only, NEW since, ListMessages(c, only, since) PROVE AloneInv'
  <2>1. UNCHANGED <<file, tmp, sent, together>>
    BY <1>10 DEF ListMessages
  <2>2. Others(c) /\ \A d \in Calls \ {c} : call'[d] = call[d]
    BY <1>10, ListMessagesFacts
  <2>3. call'[c].step = "list"
    BY <1>10, ListMessagesFacts
  <2> QED
    BY <1>3, <2>1, <2>2, <2>3
<1>11. CASE InboxRestart
  BY <1>11, NoCallState DEF InboxRestart, AloneInv, Alone, Busy
<1> QED
  BY <1>1, <1>2, <1>4, <1>5, <1>6, <1>7, <1>8, <1>9, <1>10, <1>11
  DEF InboxNext, Serve, SendMessage, RequestReview, WriteShort, Texts, CheckMessages, RecentActivity, ReplaceFails,
      MarkMessageRead, Listed, WriteFails

-----------------------------------------------------------------------------
(* A file that is empty is about to be written, unless a write failed. *)

LEMMA TearStep ==
  ASSUME InboxInv, InboxNext
  PROVE  TearInv'
<1> USE DEF InboxInv
<1>a. Absent # Empty
  BY DEF Absent, Empty
<1> SUFFICES ASSUME NEW n \in Names, n \notin lost' PROVE Torn(n)'
  BY DEF TearInv
<1>c. ASSUME lost \subseteq lost' PROVE Torn(n)
  BY <1>c DEF TearInv
\* A step of a call that neither has a file open nor opens one.
<1>d. ASSUME NEW c \in Calls, \A d \in Calls \ {c} : call'[d] = call[d],
             call[c].step # "put", call'[c].step \notin {"put", "replace"},
             UNCHANGED <<together, lost>>, tmp'[n] = tmp[n],
             file'[n] = file[n] \/ file'[n] # Empty \/ \A m \in sent' : m[2] # n,
             \A m \in sent' : m[2] = n => m \in sent \/ file'[n] # Empty
      PROVE  Torn(n)'
  <2>1. (AtTmp(n) => AtTmp(n)') /\ (AtFile(n) => AtFile(n)')
    BY <1>d DEF AtTmp, AtFile
  <2>2. \A d \in Calls : Busy(d, n)' => Busy(d, n)
    BY <1>d DEF Busy
  <2> HIDE DEF InboxInv
  <2> QED
    BY <1>c, <1>d, <2>1, <2>2 DEF Torn
<1>1. ASSUME NEW c \in Calls, NEW s \in Seconds, WriteMessage(c, s) PROVE Torn(n)'
  <2>1. ASSUME NEW k \in 0..MaxAttempts, file[<<s, k>>] = Absent, Opened(c, <<s, k>>)
        PROVE  Torn(n)'
    <3>1. PICK x \in Names : x = <<s, k>>
      BY <1>1 DEF Names
    <3>2. /\ UNCHANGED <<tmp, sent, together, lost>> /\ Untouched(x)
          /\ \A y \in Names : file'[y] = IF y = x THEN Empty ELSE file[y]
      BY <1>1, <2>1, <3>1, OpenedFile DEF WriteMessage
    <3>3. (\A d \in Calls \ {c} : call'[d] = call[d]) /\ call[c].step = "idle" /\ call'[c].step = "write"
      BY <1>1, <2>1, <3>1, OpenedFacts, NoCallState DEF WriteMessage
    <3>4. ~\E m \in sent' : m[2] = x
      BY <3>2 DEF Untouched
    <3> QED
      BY <1>d, <3>2, <3>3, <3>4
  <2>2. CASE UNCHANGED <<letters, file, call>>
    BY <1>1, <1>c, <2>2 DEF WriteMessage, Torn, AtTmp, AtFile, Busy
  <2> QED
    BY <1>1, <2>1, <2>2 DEF WriteMessage
<1>2. ASSUME NEW c \in Calls, NEW as \in Texts, Stored(c, as) PROVE Torn(n)'
  <2>1. PICK x : x = call[c].name
    OBVIOUS
  <2>2. /\ x \in Names /\ UNCHANGED tmp /\ sent' = sent \cup {<<call[c].letter, x>>}
        /\ (\A d \in Calls \ {c} : call'[d] = call[d]) /\ call'[c].step = "idle"
    BY <1>2, <2>1, SentFile, NoCallState
  <2>3. /\ n # x => file'[n] = file[n]
        /\ n = x => file'[n] # Empty
    <3>1. file'[n] = IF n = x THEN [letter |-> call[c].letter, is |-> "unread"] ELSE file[n]
      <4>1. file \in [Names -> Whole \cup {Absent, Empty}]
        BY DEF InboxTypeOK
      <4>2. file' = [file EXCEPT ![x] = [letter |-> call[c].letter, is |-> "unread"]]
        BY <1>2, <2>1 DEF Stored
      <4> HIDE DEF InboxInv
      <4> QED
        BY <2>2, <4>1, <4>2
    <3> QED
      BY <3>1 DEF Empty
  <2>4. \A m \in sent' : m \in sent \/ m[2] = x
    BY <2>2
  <2>5. call[c].step = "write" /\ UNCHANGED <<together, lost>>
    BY <1>2 DEF Stored
  <2> QED
    BY <1>d, <2>2, <2>3, <2>4, <2>5
<1>3. ASSUME NEW c \in Calls, NEW x \in Names, MarkRead(c, x) \/ Look(c, x) \/ ListNext(c, x)
      PROVE  Torn(n)'
  <2>1. UNCHANGED <<file, tmp, sent, together, lost>> /\ call[c].step # "put"
    BY <1>3, NoCallState DEF MarkRead, Look, ListNext
  <2>2. (\A d \in Calls \ {c} : call'[d] = call[d]) /\ call'[c].step \notin {"put", "replace"}
    BY <1>3, MarkReadFacts, LookFacts, ListNextFacts
  <2> QED
    BY <1>d, <2>1, <2>2
<1>4. ASSUME NEW c \in Calls, ReadText(c) PROVE Torn(n)'
  <2>1. UNCHANGED <<file, tmp, sent, together, lost>> /\ call[c].step # "put"
    BY <1>4 DEF ReadText
  <2>2. (\A d \in Calls \ {c} : call'[d] = call[d]) /\ call'[c].step \notin {"put", "replace"}
    BY <1>4, ReadTextFacts, CountedFacts
  <2> QED
    BY <1>d, <2>1, <2>2
<1>5. ASSUME NEW c \in Calls, OpenTmp(c) PROVE Torn(n)'
  <2>1. /\ UNCHANGED <<file, sent, lost>> /\ call[c].step = "open"
        /\ n # call[c].name => (n \in together' => n \in together)
        /\ tmp'[n] = IF n = call[c].name THEN Empty ELSE tmp[n]
    <3>1. call[c].name \in Names /\ UNCHANGED <<file, sent, lost>> /\ call[c].step = "open"
      BY <1>5, OpenTmpFile DEF OpenTmp
    <3> HIDE DEF InboxInv
    <3> QED
      BY <1>5, <3>1, OpenTmpFile
  <2>2. /\ \A d \in Calls \ {c} : call'[d] = call[d]
        /\ call'[c].step = "put" /\ call'[c].name = call[c].name /\ call'[c].at = "tmp"
    BY <1>5, OpenTmpFacts
  <2>3. (AtTmp(n) => AtTmp(n)') /\ (AtFile(n) => AtFile(n)')
    BY <2>1, <2>2 DEF AtTmp, AtFile
  <2>4. n = call[c].name => AtTmp(n)'
    BY <2>2 DEF AtTmp
  <2>5. n # call[c].name => \A d \in Calls : Busy(d, n)' => Busy(d, n)
    BY <2>2 DEF Busy
  <2> HIDE DEF InboxInv, AtTmp, AtFile
  <2> QED
    BY <1>c, <2>1, <2>3, <2>4, <2>5 DEF Torn
<1>6. ASSUME NEW c \in Calls, Put(c) PROVE Torn(n)'
  <2> DEFINE new == [letter |-> call[c].letter, is |-> "read"]
  <2>0. UNCHANGED <<together, lost>> /\ call[c].step = "put" /\ call'[c].name = call[c].name
    BY <1>6, PutFacts DEF Put
  <2>1. /\ UNCHANGED sent
        /\ tmp'[n] = IF n = call[c].name /\ call[c].at = "tmp" THEN new ELSE tmp[n]
        /\ file'[n] = IF n = call[c].name /\ call[c].at = "file" THEN new ELSE file[n]
    BY <1>6, PutFile
  <2>2. new # Empty
    BY DEF Empty
  <2> HIDE DEF new
  <2>3. \A d \in Calls \ {c} : call'[d] = call[d]
    BY <1>6, PutFacts
  <2>4. /\ ~(n = call[c].name /\ call[c].at = "tmp") => (AtTmp(n) => AtTmp(n)')
        /\ ~(n = call[c].name /\ call[c].at = "file") => (AtFile(n) => AtFile(n)')
    BY <2>3 DEF AtTmp, AtFile
  <2>5. n # call[c].name => \A d \in Calls : Busy(d, n)' => Busy(d, n)
    BY <2>0, <2>3 DEF Busy
  <2>6. n = call[c].name => Busy(c, n)
    BY <2>0 DEF Busy
  <2> HIDE DEF InboxInv
  <2> QED
    BY <1>c, <2>0, <2>1, <2>2, <2>4, <2>5, <2>6 DEF Torn
<1>7. ASSUME NEW c \in Calls, Replace(c) PROVE Torn(n)'
  <2>1. PICK x : x = call[c].name
    OBVIOUS
  <2>0. UNCHANGED <<together, lost>> /\ call'[c].step = "look" /\ Busy(c, x)
    BY <1>7, <2>1, MovedFacts, CountedFacts DEF Replace, Busy
  <2>2. /\ UNCHANGED sent
        /\ tmp'[n] = IF n = x THEN Absent ELSE tmp[n]
        /\ file'[n] = IF n = x THEN tmp[x] ELSE file[n]
    BY <1>7, <2>1, ReplacedFile
  <2>3. /\ Others(c) /\ call[c].step = "replace"
        /\ \A d \in Calls \ {c} :
             call'[d].at = IF d \in Writers(x)
                           THEN IF call[d].at = "tmp" THEN "file" ELSE "gone"
                           ELSE call[d].at
    BY <1>7, <2>1, MovedFacts DEF Replace
  <2>4. CASE n = x
    <3>1. AtTmp(n) => AtFile(n)'
      <4>1. ASSUME NEW d \in Calls, call[d].step = "put", call[d].name = n, call[d].at = "tmp"
            PROVE  AtFile(n)'
        <5>1. d # c /\ d \in Writers(x)
          BY <2>3, <2>4, <4>1 DEF Writers
        <5> QED
          BY <2>3, <4>1, <5>1 DEF Others, AtFile
      <4> QED
        BY <4>1 DEF AtTmp
    <3> QED
      BY <1>a, <1>c, <2>0, <2>2, <2>4, <3>1 DEF Torn
  <2>5. CASE n # x
    <3>1. \A d \in Calls : call[d].step = "put" /\ call[d].name = n =>
            /\ d # c /\ call'[d].at = call[d].at
            /\ call'[d].step = "put" /\ call'[d].name = n
      BY <2>3, <2>5 DEF Others, Writers
    <3>2. (AtTmp(n) => AtTmp(n)') /\ (AtFile(n) => AtFile(n)')
      BY <3>1 DEF AtTmp, AtFile
    <3>3. \A d \in Calls : Busy(d, n)' => Busy(d, n)
      BY <2>0, <2>3 DEF Busy, Others
    <3> HIDE DEF InboxInv
    <3> QED
      BY <1>c, <2>0, <2>2, <2>5, <3>2, <3>3 DEF Torn
  <2> QED
    BY <2>4, <2>5
<1>8. ASSUME NEW c \in Calls, Finish(c), call[c].step # "put", UNCHANGED <<file, tmp, sent, together, lost>>
      PROVE  Torn(n)'
  BY <1>8, <1>d, FinishFacts, NoCallState
<1>9. ASSUME NEW c \in Calls, NEW only, NEW since, ListMessages(c, only, since) PROVE Torn(n)'
  <2>1. UNCHANGED <<file, tmp, sent, together, lost>> /\ call[c].step = "idle"
    BY <1>9, NoCallState DEF ListMessages
  <2>2. (\A d \in Calls \ {c} : call'[d] = call[d]) /\ call'[c].step = "list"
    BY <1>9, ListMessagesFacts
  <2> QED
    BY <1>d, <2>1, <2>2
<1>10. ASSUME NEW c \in Calls, ReplaceFails(c) \/ MarkMessageRead(c) \/ Listed(c) PROVE Torn(n)'
  BY <1>8, <1>10 DEF ReplaceFails, MarkMessageRead, Listed
<1>e. n \notin together => \A d, e \in Calls : Busy(d, n) /\ Busy(e, n) => d = e
  BY DEF AloneInv, Alone
<1>f. n \notin together => ~AtFile(n)
  BY DEF AloneInv, Alone, AtFile, Busy
<1>11. ASSUME NEW c \in Calls, WriteFails(c) PROVE Torn(n)'
  <2>1. UNCHANGED <<file, tmp, sent, together>> /\ lost' = lost \cup CutOff({c})
    BY <1>11 DEF WriteFails
  <2>2. (\A d \in Calls \ {c} : call'[d] = call[d]) /\ call'[c].step = "idle"
    BY <1>11, FinishFacts, NoCallState DEF WriteFails
  <2>3. \A d \in Calls : Busy(d, n)' => Busy(d, n) /\ d # c
    BY <2>2 DEF Busy
  <2>4. Torn(n)
    BY <1>c, <2>1
  <2>5. CASE ~(call[c].step = "put" /\ call[c].name = n)
    <3>1. (AtTmp(n) => AtTmp(n)') /\ (AtFile(n) => AtFile(n)')
      BY <2>2, <2>5 DEF AtTmp, AtFile
    <3> HIDE DEF InboxInv
    <3> QED
      BY <2>1, <2>3, <2>4, <3>1 DEF Torn
  <2>6. CASE call[c].step = "put" /\ call[c].name = n
    <3>1. n \notin together
      BY <2>1, <2>6 DEF CutOff, Writers
    <3>2. Busy(c, n) /\ \A d \in Calls : ~Busy(d, n)'
      BY <1>e, <2>3, <2>6, <3>1 DEF Busy
    <3> HIDE DEF InboxInv
    <3> QED
      BY <1>f, <2>1, <2>4, <3>1, <3>2 DEF Torn
  <2> QED
    BY <2>5, <2>6
<1>12. CASE InboxRestart
  <2>1. UNCHANGED <<file, tmp, sent, together>> /\ lost' = lost \cup CutOff(Calls)
    BY <1>12 DEF InboxRestart
  <2>2. \A d \in Calls : ~Busy(d, n)'
    BY <1>12, NoCallState DEF InboxRestart, Busy
  <2>3. Torn(n)
    BY <1>c, <2>1
  <2>4. n \in together => ~AtTmp(n) /\ ~AtFile(n)
    BY <2>1 DEF CutOff, Writers, AtTmp, AtFile
  <2> HIDE DEF InboxInv
  <2> QED
    BY <1>f, <2>1, <2>2, <2>3, <2>4 DEF Torn
<1> HIDE DEF Torn, InboxInv
<1> QED
  BY <1>1, <1>2, <1>3, <1>4, <1>5, <1>6, <1>7, <1>9, <1>10, <1>11, <1>12
  DEF InboxNext, Serve, SendMessage, RequestReview, WriteShort, Texts, CheckMessages, RecentActivity

-----------------------------------------------------------------------------
(* A listing. *)

\* A letter that call c is to list is shown, or still to come, or marked.
Owing(c) ==
  \/ Cardinality(call[c].counted) = Limit /\ call[c].todo = {}
  \/ \A n \in call[c].owed :
       \/ n \in call[c].counted \cup call[c].todo \cup together
       \/ call[c].only = {"unread"} /\ file[n].is = "read"

\* A letter that was sent keeps its text, and if it is marked it stays so, unless two calls mark it.
StaysRead ==
  \A n \in Names : (\E m \in sent : m[2] = n) =>
    text'[n] = text[n] /\ (n \notin together' /\ file[n].is = "read" => file'[n].is = "read")

LEMMA ListKept ==
  ASSUME InboxTypeOK, ListInv, NEW c \in Calls, Others(c), call'[c].step # "list",
         StaysRead, sent \subseteq sent', together \subseteq together'
  PROVE  ListInv'
<1>1. ASSUME NEW d \in Calls, call'[d].step = "list" PROVE
        /\ call'[d].only \in {{"unread"}, {"unread", "read"}}
        /\ \A n \in call'[d].owed :
               n[1] > call'[d].since /\ text'[n] # "illegible" /\ \E m \in sent' : m[2] = n
        /\ Owing(d)'
  <2>1. d # c /\ call[d].step = "list"
    BY <1>1 DEF Others
  <2>2. /\ call'[d].only = call[d].only /\ call'[d].since = call[d].since
        /\ call'[d].owed = call[d].owed /\ call'[d].counted = call[d].counted
        /\ call'[d].todo = call[d].todo
    BY <2>1 DEF Others
  <2>3. Owing(d) /\ call[d].owed \subseteq Names
    BY <2>1 DEF ListInv, Owing, InboxTypeOK, CallStates
  <2>4. call'[d].only \in {{"unread"}, {"unread", "read"}}
    BY <2>1, <2>2 DEF ListInv
  <2>5. \A n \in call'[d].owed :
          n[1] > call'[d].since /\ text[n] # "illegible" /\ \E m \in sent : m[2] = n
    BY <2>1, <2>2 DEF ListInv
  <2>7. \A n \in call'[d].owed : text'[n] # "illegible"
    BY <2>2, <2>3, <2>5 DEF StaysRead
  <2>6. Owing(d)'
    BY <2>2, <2>3, <2>5 DEF Owing, StaysRead
  <2> QED
    BY <2>4, <2>5, <2>6, <2>7
<1> QED
  BY <1>1 DEF ListInv, Owing

LEMMA ListStep ==
  ASSUME InboxInv, InboxNext
  PROVE  ListInv'
<1> USE DEF InboxInv
<1>1. ASSUME NEW c \in Calls, NEW s \in Seconds, WriteMessage(c, s) PROVE ListInv'
  <2>1. ASSUME NEW k \in 0..MaxAttempts, file[<<s, k>>] = Absent, Opened(c, <<s, k>>)
        PROVE  ListInv'
    <3>1. PICK n \in Names : n = <<s, k>>
      BY <1>1 DEF Names
    <3>2. /\ UNCHANGED <<text, sent, together>> /\ Untouched(n)
          /\ \A x \in Names : file'[x] = IF x = n THEN Empty ELSE file[x]
      BY <1>1, <2>1, <3>1, OpenedFile DEF WriteMessage
    <3>3. Others(c) /\ call'[c].step = "write"
      BY <2>1, <3>1, OpenedFacts
    <3>4. StaysRead
      BY <3>2 DEF StaysRead, Untouched
    <3> QED
      BY <3>2, <3>3, <3>4, ListKept
  <2>2. CASE UNCHANGED <<letters, file, call>>
    BY <1>1, <2>2 DEF WriteMessage, ListInv
  <2> QED
    BY <1>1, <2>1, <2>2 DEF WriteMessage
<1>2. ASSUME NEW c \in Calls, NEW as \in Texts, Stored(c, as) PROVE ListInv'
  <2>1. PICK n : n = call[c].name
    OBVIOUS
  <2>2. /\ Untouched(n) /\ sent \subseteq sent' /\ UNCHANGED together
        /\ Others(c) /\ call'[c].step = "idle"
    BY <1>2, <2>1, SentFile, NoCallState
  <2>3. \A x \in Names : x # n => file'[x] = file[x] /\ text'[x] = text[x]
    <3>1. file \in [Names -> Whole \cup {Absent, Empty}]
      BY DEF InboxTypeOK
    <3>2. \A x \in Names : x # n => text'[x] = text[x]
      BY <1>2, <2>1, SentText
    <3> HIDE DEF InboxInv
    <3> QED
      BY <1>2, <2>1, <3>1, <3>2 DEF Stored
  <2>4. StaysRead
    BY <2>2, <2>3 DEF StaysRead, Untouched
  <2> QED
    BY <2>2, <2>4, ListKept
<1>3. ASSUME NEW c \in Calls, UNCHANGED <<file, text, sent, together>>, Others(c),
             call'[c].step # "list"
      PROVE  ListInv'
  BY <1>3, ListKept DEF StaysRead
<1>4. ASSUME NEW c \in Calls, NEW n \in Names, MarkRead(c, n) \/ Look(c, n) PROVE ListInv'
  <2>1. UNCHANGED <<file, text, sent, together>>
    BY <1>4 DEF MarkRead, Look
  <2>2. Others(c) /\ call'[c].step # "list"
    BY <1>4, MarkReadFacts, LookFacts
  <2> QED
    BY <1>3, <2>1, <2>2
<1>5. ASSUME NEW c \in Calls, ReadText(c) PROVE ListInv'
  <2>1. UNCHANGED <<file, text, sent, together>>
    BY <1>5 DEF ReadText
  <2>2. Others(c) /\ call'[c].step # "list"
    BY <1>5, ReadTextFacts, CountedFacts
  <2> QED
    BY <1>3, <2>1, <2>2
<1>6. ASSUME NEW c \in Calls, OpenTmp(c) PROVE ListInv'
  <2>1. UNCHANGED <<file, text, sent>> /\ together \subseteq together'
    BY <1>6, OpenTmpFile DEF OpenTmp
  <2>2. Others(c) /\ call'[c].step = "put"
    BY <1>6, OpenTmpFacts
  <2> QED
    BY <2>1, <2>2, ListKept DEF StaysRead
<1>7. ASSUME NEW c \in Calls, Put(c) PROVE ListInv'
  <2>1. UNCHANGED <<text, sent, together>> /\ \A n \in Names : file'[n] = file[n] \/ file'[n].is = "read"
    <3>1. UNCHANGED <<text, sent, together>>
      BY <1>7 DEF Put
    <3>2. ASSUME NEW n \in Names PROVE file'[n] = file[n] \/ file'[n].is = "read"
      <4>1. \/ file'[n] = file[n]
            \/ file'[n] = [letter |-> call[c].letter, is |-> "read"]
        BY <1>7, PutFile
      <4> QED
        BY <4>1
    <3> QED
      BY <3>1, <3>2
  <2>2. Others(c) /\ call'[c].step = "replace"
    BY <1>7, PutFacts
  <2> QED
    BY <2>1, <2>2, ListKept DEF StaysRead
<1>8. ASSUME NEW c \in Calls, Replace(c) PROVE ListInv'
  <2>1. PICK n : n = call[c].name
    OBVIOUS
  <2>0. UNCHANGED text
    BY <1>8 DEF Replace
  <2>2. /\ n \in Names /\ UNCHANGED <<text, sent, together>>
        /\ \A x \in Names : file'[x] = IF x = n THEN tmp[n] ELSE file[x]
    BY <1>8, <2>0, <2>1, ReplacedFile
  <2>3. Others(c) /\ call'[c].step = "look" /\ Busy(c, n) /\ call[c].step = "replace"
    BY <1>8, <2>1, MovedFacts, CountedFacts DEF Busy, Replace
  <2>4. n \notin together => tmp[n].is = "read"
    <3>1. n \notin together => tmp[n] \in Whole
      BY <2>2, <2>3 DEF AloneInv, Alone
    <3>2. tmp[n] \in Whole => tmp[n].is \in {"unread", "read"}
      BY DEF Whole
    <3> QED
      BY <2>2, <3>1, <3>2 DEF MarkInv
  <2>5. StaysRead
    BY <2>2, <2>4 DEF StaysRead
  <2> QED
    BY <2>2, <2>3, <2>5, ListKept
<1>9. ASSUME NEW c \in Calls, Finish(c), UNCHANGED <<file, text, sent, together>> PROVE ListInv'
  BY <1>3, <1>9, FinishFacts, NoCallState
<1>10. ASSUME NEW c \in Calls, NEW only \in {{"unread"}, {"unread", "read"}}, NEW since,
              ListMessages(c, only, since)
       PROVE  ListInv'
  <2>1. UNCHANGED <<file, text, sent, together>>
    BY <1>10 DEF ListMessages
  <2>2. Others(c) /\ \A d \in Calls \ {c} : call'[d] = call[d]
    BY <1>10, ListMessagesFacts
  <2>3. /\ call'[c].only = only /\ call'[c].since = since
        /\ call'[c].todo = {n \in Names : file[n] # Absent}
        /\ call'[c].owed = {m[2] : m \in {e \in sent : Passes(e[2], only, since)}}
    BY <1>10, ListMessagesFacts
  <2>4. \A n \in call'[c].owed : Passes(n, only, since) /\ \E m \in sent : m[2] = n
    BY <2>3
  <2>5. \A n \in call'[c].owed : n \in call'[c].todo /\ n[1] > since /\ text[n] # "illegible"
    BY <2>3, <2>4 DEF Passes, Readable, Absent, InboxTypeOK
  <2>6. ASSUME NEW d \in Calls, call'[d].step = "list" PROVE
          /\ call'[d].only \in {{"unread"}, {"unread", "read"}}
          /\ \A n \in call'[d].owed :
               n[1] > call'[d].since /\ text'[n] # "illegible" /\ \E m \in sent' : m[2] = n
          /\ Owing(d)'
    <3>1. CASE d = c
      BY <1>10, <2>1, <2>3, <2>4, <2>5, <3>1 DEF Owing
    <3>2. CASE d # c
      BY <2>1, <2>2, <2>6, <3>2 DEF Owing, ListInv
    <3> QED
      BY <3>1, <3>2
  <2> QED
    BY <2>6 DEF ListInv, Owing
<1>11. ASSUME NEW c \in Calls, NEW n \in Names, ListNext(c, n) PROVE ListInv'
  <2>1. UNCHANGED <<file, text, sent, together>> /\ call[c].step = "list" /\ n \in call[c].todo
    BY <1>11 DEF ListNext, Latest
  <2>2. Others(c) /\ \A d \in Calls \ {c} : call'[d] = call[d]
    BY <1>11, ListNextFacts
  <2>3. /\ call'[c].only = call[c].only /\ call'[c].since = call[c].since
        /\ call'[c].owed = call[c].owed
        /\ call'[c].counted = call[c].counted \cup
             (IF Passes(n, call[c].only, call[c].since) THEN {n} ELSE {})
        /\ call'[c].todo = IF Cardinality(call'[c].counted) = Limit THEN {} ELSE call[c].todo \ {n}
    BY <1>11, ListNextFacts
  <2>4. /\ call[c].only \in {{"unread"}, {"unread", "read"}}
        /\ \A x \in call[c].owed :
             x[1] > call[c].since /\ text[x] # "illegible" /\ \E m \in sent : m[2] = x
        /\ Owing(c)
    BY <2>1 DEF ListInv, Owing
  <2>5. n \in call[c].owed =>
          n \in call'[c].counted \cup together \/ (call[c].only = {"unread"} /\ file[n].is = "read")
    <3>1. n \in call[c].owed /\ n \notin together => file[n] \in Whole
      BY <2>4 DEF AloneInv, Alone
    <3>2. file[n] \in Whole => file[n].is \in {"unread", "read"}
      BY DEF Whole
    <3>3. n \in call[c].owed /\ n \notin together /\ file[n].is \in call[c].only =>
            Passes(n, call[c].only, call[c].since)
      BY <2>4 DEF Passes, Readable
    <3>4. call[c].only # {"unread"} => {"unread", "read"} \subseteq call[c].only
      BY <2>4
    <3>5. "unread" \in call[c].only
      BY <2>4
    <3> QED
      BY <2>3, <3>1, <3>2, <3>3, <3>4, <3>5
  <2>6. Owing(c)'
    <3>1. CASE Cardinality(call'[c].counted) = Limit
      BY <2>3, <3>1 DEF Owing
    <3>2. CASE Cardinality(call'[c].counted) # Limit
      <4>1. \A x \in call[c].owed :
              \/ x \in call[c].counted \cup call[c].todo \cup together
              \/ call[c].only = {"unread"} /\ file[x].is = "read"
        BY <2>1, <2>4 DEF Owing
      <4> QED
        BY <2>1, <2>3, <2>5, <3>2, <4>1 DEF Owing
    <3> QED
      BY <3>1, <3>2
  <2>7. ASSUME NEW d \in Calls, call'[d].step = "list" PROVE
          /\ call'[d].only \in {{"unread"}, {"unread", "read"}}
          /\ \A x \in call'[d].owed :
               x[1] > call'[d].since /\ text'[x] # "illegible" /\ \E m \in sent' : m[2] = x
          /\ Owing(d)'
    <3>1. CASE d = c
      BY <2>1, <2>3, <2>4, <2>6, <3>1
    <3>2. CASE d # c
      BY <2>1, <2>2, <2>7, <3>2 DEF Owing, ListInv
    <3> QED
      BY <3>1, <3>2
  <2> QED
    BY <2>7 DEF ListInv, Owing
<1>12. CASE InboxRestart
  BY <1>12, NoCallState DEF InboxRestart, ListInv
<1> QED
  BY <1>1, <1>2, <1>4, <1>5, <1>6, <1>7, <1>8, <1>9, <1>10, <1>11, <1>12
  DEF InboxNext, Serve, SendMessage, RequestReview, WriteShort, Texts, CheckMessages, RecentActivity, ReplaceFails,
      MarkMessageRead, Listed, WriteFails

-----------------------------------------------------------------------------
(* The invariant, and what it says. *)

LEMMA InboxInitInv == InboxInit => InboxInv
<1> SUFFICES ASSUME InboxInit PROVE InboxInv
  OBVIOUS
<1> USE DEF InboxInit
<1>1. InboxTypeOK
  BY NoCallState, InboxAssumption DEF InboxTypeOK, Texts
<1>2. WriteInv
  BY NoCallState DEF WriteInv, Untouched, Writes, Marks, Marking
<1>3. MarkInv
  BY NoCallState DEF MarkInv, MarkedIsRead, Marking, Absent
<1>4. LetterInv /\ AloneInv /\ ListInv
  BY NoCallState DEF LetterInv, AloneInv, Alone, Busy, ListInv
<1>5. TearInv
  BY DEF TearInv, Torn, Absent, Empty
<1> QED
  BY <1>1, <1>2, <1>3, <1>4, <1>5 DEF InboxInv

LEMMA InboxStep == InboxInv /\ [InboxNext]_inboxVars => InboxInv'
<1>1. ASSUME InboxInv, InboxNext PROVE InboxInv'
  <2>1. InboxTypeOK'
    BY <1>1, InboxTypeStep DEF InboxInv
  <2> QED
    BY <1>1, <2>1, WriteStep, MarkStep, LetterStep, AloneStep, TearStep, ListStep DEF InboxInv
<1>2. ASSUME InboxInv, UNCHANGED inboxVars PROVE InboxInv'
  BY <1>2 DEF inboxVars, InboxInv, InboxTypeOK, WriteInv, Untouched, Writes, Marks, Marking,
     MarkInv, MarkedIsRead, LetterInv, Holds, AloneInv, Alone, Busy, TearInv, Torn, AtTmp, AtFile, ListInv
<1> QED
  BY <1>1, <1>2

LEMMA InboxTrue == InboxInv => SentIsKept /\ MarkedIsRead /\ ListingIsFull
<1> SUFFICES ASSUME InboxInv PROVE SentIsKept /\ MarkedIsRead /\ ListingIsFull
  OBVIOUS
<1> USE DEF InboxInv
<1>1. SentIsKept
  <2> SUFFICES ASSUME NEW m \in sent, NEW n, n = m[2]
               PROVE  \/ file[n].letter = m[1]
                      \/ n \in lost \/ \E c \in Writers(n) : call[c].at = "file"
    BY DEF SentIsKept
  <2>1. n \in Names /\ Holds(n, m[1])
    BY DEF InboxTypeOK, LetterInv
  <2>2. CASE file[n] # Empty
    BY <2>1, <2>2 DEF Holds
  <2>3. CASE file[n] = Empty
    BY <2>1, <2>3 DEF TearInv, Torn, AtFile, Writers
  <2> QED
    BY <2>2, <2>3
<1>2. ListingIsFull
  BY DEF ListInv, ListingIsFull
<1> QED
  BY <1>1, <1>2 DEF MarkInv

=============================================================================
