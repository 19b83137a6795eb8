----------------------------- MODULE TeamInbox -----------------------------
(***************************************************************************)
(* The message store of the bridge (inbox.py) under the MCP tools that use  *)
(* it (mcp_tools.py, mcp_server.py, the /mcp route): one user's directory,  *)
(* reached by concurrent HTTP threads that share no lock.                   *)
(*                                                                          *)
(* A file is named by the second of the letter and an attempt: all letters  *)
(* of a second are taken to have one sender and one subject, which is when  *)
(* names collide.  The clock may give any second.  A letter is marked by    *)
(* writing <name>.md.tmp, the same name in every thread, and renaming it.   *)
(***************************************************************************)
EXTENDS Naturals, FiniteSets

CONSTANTS
  Calls,        \* threads serving /mcp
  Callers,      \* who calls: members of the team, or the loopback token
  Seconds,      \* the times a letter may bear
  MaxAttempts,  \* suffixes tried on a collision (99)
  Limit,        \* letters a listing returns at most (50 unless asked)
  MaxLetters,   \* bound: letters sent
  MaxFaults     \* bound: writes that fail or come short, and restarts

ASSUME InboxAssumption ==
  /\ Seconds \subseteq Nat \ {0}
  /\ MaxAttempts \in Nat /\ MaxLetters \in Nat /\ MaxFaults \in Nat

Letters == 1..MaxLetters
Names == Seconds \X (0..MaxAttempts)

\* A file: it is not there, there is nothing in it yet, or it is a letter.
Absent == [letter |-> 0, is |-> "absent"]
Empty == [letter |-> 0, is |-> "empty"]
Whole == [letter : Letters, is : {"unread", "read"}]

VARIABLES
  letters,   \* letters begun so far
  file,      \* name -> the file <name>.md
  text,      \* name -> what os.write and the subject have made of its letter
  tmp,       \* name -> the file <name>.md.tmp
  call,      \* thread -> what it is at
  sent,      \* history: <<letter, name>> whose sender was told "Sent"
  marked,    \* history: names whose reader was told "Marked"
  together,  \* history: names two calls were marking at one time
  lost,      \* history: those of them whose marking failed or was cut off
  faults

inboxVars == <<letters, file, text, tmp, call, sent, marked, together, lost, faults>>

\* All of the letter; a part with a whole front matter; or a text whose front
\* matter does not parse.  Marking a letter does not change which.
Texts == {"whole", "clipped", "illegible"}

Steps ==
  {"idle", "write", "look", "text", "open", "put", "replace", "list"}

\* A call: its step, the name and the letter it is at, the names it has yet to
\* go through and those it has counted, and its filter.  In "put", at says where
\* the file it has open is: still <name>.md.tmp, already <name>.md, or replaced.
NoCall ==
  [step |-> "idle", name |-> <<0, 0>>, letter |-> 0, at |-> "tmp", todo |-> {},
   counted |-> {}, since |-> 0, upto |-> 0, only |-> {"unread", "read"}, owed |-> {}]

CallStates ==
  [step : Steps, name : Names \cup {<<0, 0>>}, letter : 0..MaxLetters,
   at : {"tmp", "file", "gone"}, todo : SUBSET Names, counted : SUBSET Names,
   since : Nat, upto : Nat, only : SUBSET {"unread", "read"}, owed : SUBSET Names]

InboxTypeOK ==
  /\ letters \in 0..MaxLetters
  /\ file \in [Names -> Whole \cup {Absent, Empty}]
  /\ text \in [Names -> Texts]
  /\ tmp \in [Names -> Whole \cup {Absent, Empty}]
  /\ call \in [Calls -> CallStates]
  /\ sent \subseteq Letters \X Names /\ marked \subseteq Names /\ together \subseteq Names
  /\ lost \subseteq Names
  /\ faults \in 0..MaxFaults

InboxInit ==
  /\ letters = 0 /\ faults = 0
  /\ file = [n \in Names |-> Absent] /\ tmp = [n \in Names |-> Absent]
  /\ text = [n \in Names |-> "whole"] /\ lost = {}
  /\ call = [c \in Calls |-> NoCall]
  /\ sent = {} /\ marked = {} /\ together = {}

\* A call of the loopback token has no user id and is answered 401.
Identified(who) == who # "loopback"

\* _read_message raises on a file without a whole front matter.
Readable(n) == file[n].is \in {"unread", "read"} /\ text[n] # "illegible"

\* A call returns, with an answer or an error: nothing of it is left.
Finish(c) == call' = [call EXCEPT ![c] = NoCall]

-----------------------------------------------------------------------------
(* send_message_to_user and request_review: write_message. *)

Opened(c, n) ==
  /\ letters < MaxLetters /\ letters' = letters + 1
  /\ file' = [file EXCEPT ![n] = Empty]
  /\ call' = [call EXCEPT ![c] = [NoCall EXCEPT !.step = "write", !.letter = letters', !.name = n]]

\* Faulty: the file is opened without O_EXCL.
WriteOver(c, s) ==
  /\ call[c] = NoCall /\ Opened(c, <<s, 0>>)
  /\ UNCHANGED <<text, tmp, sent, marked, together, lost, faults>>

\* The first name that is free is opened; no file is ever removed, so the loop
\* over the names ends as one step would.  With none free, it raises.
WriteMessage(c, s) ==
  /\ call[c] = NoCall
  /\ \/ \E k \in 0..MaxAttempts :
          /\ file[<<s, k>>] = Absent /\ \A j \in 0..(k - 1) : file[<<s, j>>] # Absent
          /\ Opened(c, <<s, k>>)
     \/ /\ \A k \in 0..MaxAttempts : file[<<s, k>>] # Absent
        /\ UNCHANGED <<letters, file, call>>
  /\ UNCHANGED <<text, tmp, sent, marked, together, lost, faults>>

\* Something is written, and the sender told "Sent".
Stored(c, as) ==
  /\ call[c].step = "write"
  /\ file' = [file EXCEPT ![call[c].name] = [letter |-> call[c].letter, is |-> "unread"]]
  /\ text' = [text EXCEPT ![call[c].name] = as]
  /\ sent' = sent \cup {<<call[c].letter, call[c].name>>}
  /\ Finish(c)
  /\ UNCHANGED <<letters, tmp, marked, together, lost>>

\* The subject goes into the front matter as it is: a line of it that begins
\* with --- ends the front matter before sent_at.  A message ...
SendMessage(c) == (\E as \in {"whole", "illegible"} : Stored(c, as)) /\ UNCHANGED faults

\* ... or a review request, which has a subject and a body of its own.
RequestReview(c) == SendMessage(c)

\* os.write takes a part of the text only, and nobody looks at its count.
WriteShort(c) ==
  /\ \E as \in {"clipped", "illegible"} : Stored(c, as)
  /\ faults < MaxFaults /\ faults' = faults + 1

-----------------------------------------------------------------------------
(* mark_message_read: mark_read and _atomic_set_read_at. *)

\* The target must be readable, else the answer is 0 or an error.  With
\* mark_all_before all names in the directory are gone through.
MarkRead(c, n) ==
  /\ call[c] = NoCall /\ Readable(n)
  /\ \E todo \in {{n}, {m \in Names : file[m] # Absent}} :
       call' = [call EXCEPT ![c] =
                  [NoCall EXCEPT !.step = "look", !.todo = todo, !.upto = n[1]]]
  /\ UNCHANGED <<letters, file, text, tmp, sent, marked, together, lost, faults>>

\* The next name: a letter that is unread, and not after the target, is marked.
Look(c, n) ==
  /\ call[c].step = "look" /\ n \in call[c].todo
  /\ LET rest == [call[c] EXCEPT !.todo = @ \ {n}]
     IN  call' = [call EXCEPT ![c] =
           IF Readable(n) /\ file[n].is = "unread" /\ n[1] <= rest.upto
           THEN [rest EXCEPT !.step = "text", !.name = n] ELSE rest]
  /\ UNCHANGED <<letters, file, text, tmp, sent, marked, together, lost, faults>>

\* Marked, or nothing to change: counted, and on to the next.
Counted(at) ==
  [NoCall EXCEPT !.step = "look", !.todo = at.todo, !.upto = at.upto,
               !.counted = at.counted \cup {at.name}]

\* The file is read again; with nothing in it, or marked in this same second,
\* there is nothing to change, and it is counted.
ReadText(c) ==
  /\ call[c].step = "text"
  /\ LET n == call[c].name
     IN  \/ /\ Readable(n)
            /\ call' = [call EXCEPT ![c].step = "open", ![c].letter = file[n].letter]
         \/ /\ file[n].is # "unread"
            /\ call' = [call EXCEPT ![c] = Counted(@)]
  /\ UNCHANGED <<letters, file, text, tmp, sent, marked, together, lost, faults>>

\* Calls that have <n>.md.tmp open, whatever its name is by now.
Writers(n) == {c \in Calls : call[c].step = "put" /\ call[c].name = n}

OpenTmp(c) ==
  /\ call[c].step = "open"
  /\ LET n == call[c].name
     IN  /\ tmp' = [tmp EXCEPT ![n] = Empty]
         /\ together' =
              IF \E d \in Calls : call[d].step \in {"put", "replace"} /\ call[d].name = n
              THEN together \cup {n} ELSE together
  /\ call' = [call EXCEPT ![c].step = "put", ![c].at = "tmp"]
  /\ UNCHANGED <<letters, file, text, sent, marked, lost, faults>>

Put(c) ==
  /\ call[c].step = "put"
  /\ LET n    == call[c].name
         new  == [letter |-> call[c].letter, is |-> "read"]
     IN  /\ tmp' = IF call[c].at = "tmp" THEN [tmp EXCEPT ![n] = new] ELSE tmp
         /\ file' = IF call[c].at = "file" THEN [file EXCEPT ![n] = new] ELSE file
  /\ call' = [call EXCEPT ![c].step = "replace"]
  /\ UNCHANGED <<letters, text, sent, marked, together, lost, faults>>

\* os.replace: the file others have open gets the name with it.
Moved(n) ==
  [d \in Calls |->
     IF d \in Writers(n)
     THEN [call[d] EXCEPT !.at = IF @ = "tmp" THEN "file" ELSE "gone"]
     ELSE call[d]]

Replace(c) ==
  /\ call[c].step = "replace"
  /\ LET n == call[c].name
     IN  /\ tmp[n] # Absent
         /\ file' = [file EXCEPT ![n] = tmp[n]]
         /\ tmp' = [tmp EXCEPT ![n] = Absent]
         /\ call' = [Moved(n) EXCEPT ![c] = Counted(@)]
  /\ UNCHANGED <<letters, text, sent, marked, together, lost, faults>>

\* Another call's rename took the file: an error, and the rest is not marked.
ReplaceFails(c) ==
  /\ call[c].step = "replace" /\ tmp[call[c].name] = Absent
  /\ Finish(c)
  /\ UNCHANGED <<letters, file, text, tmp, sent, marked, together, lost, faults>>

\* The reader is told how many were marked.
MarkMessageRead(c) ==
  /\ call[c].step = "look" /\ call[c].todo = {}
  /\ marked' = marked \cup call[c].counted
  /\ Finish(c)
  /\ UNCHANGED <<letters, file, text, tmp, sent, together, lost, faults>>

-----------------------------------------------------------------------------
(* check_messages and get_recent_activity: list_messages. *)

Passes(n, only, since) == Readable(n) /\ file[n].is \in only /\ n[1] > since

\* owed: letters that are there, and told "Sent", before the listing begins.
ListMessages(c, only, since) ==
  /\ call[c] = NoCall
  /\ call' = [call EXCEPT ![c] = [NoCall EXCEPT
       !.step = "list", !.only = only, !.since = since,
       !.todo = {n \in Names : file[n] # Absent},
       !.owed = {m[2] : m \in {e \in sent : Passes(e[2], only, since)}}]]
  /\ UNCHANGED <<letters, file, text, tmp, sent, marked, together, lost, faults>>

\* The caller's own letters, from any time on.
CheckMessages(c) ==
  \E only \in {{"unread"}, {"unread", "read"}} : ListMessages(c, only, 0)

\* The letters of the last hours, read ones too.  The runner is asked besides;
\* that it cannot be reached is only noted in the answer.
RecentActivity(c) ==
  \E since \in Seconds : ListMessages(c, {"unread", "read"}, since)

Latest(c) == {n \in call[c].todo : \A m \in call[c].todo : m[1] <= n[1]}

\* Faulty: the first file that cannot be read ends the listing.
ListUntilUnreadable(c, n) ==
  /\ call[c].step = "list" /\ n \in Latest(c)
  /\ LET shown == call[c].counted \cup
                    (IF Passes(n, call[c].only, call[c].since) THEN {n} ELSE {})
     IN  call' = [call EXCEPT
           ![c].counted = shown,
           ![c].todo = IF Cardinality(shown) = Limit \/ ~Readable(n) THEN {} ELSE @ \ {n}]
  /\ UNCHANGED <<letters, file, text, tmp, sent, marked, together, lost, faults>>

\* File by file, the latest second first; one that cannot be read is skipped.
ListNext(c, n) ==
  /\ call[c].step = "list" /\ n \in Latest(c)
  /\ LET shown == call[c].counted \cup
                    (IF Passes(n, call[c].only, call[c].since) THEN {n} ELSE {})
     IN  call' = [call EXCEPT
           ![c].counted = shown,
           ![c].todo = IF Cardinality(shown) = Limit THEN {} ELSE @ \ {n}]
  /\ UNCHANGED <<letters, file, text, tmp, sent, marked, together, lost, faults>>

\* The letters counted are shown.
Listed(c) ==
  /\ call[c].step = "list" /\ call[c].todo = {}
  /\ Finish(c)
  /\ UNCHANGED <<letters, file, text, tmp, sent, marked, together, lost, faults>>

-----------------------------------------------------------------------------
(* What goes wrong. *)

\* Names whose temporary file these calls leave unwritten, and others use too.
CutOff(cs) == {n \in together : Writers(n) \cap cs # {}}

\* A write raises (no space): handle_request answers with an error, and the
\* file stays as the open left it.
WriteFails(c) ==
  /\ call[c].step \in {"write", "put"} /\ faults < MaxFaults
  /\ faults' = faults + 1 /\ lost' = lost \cup CutOff({c})
  /\ Finish(c)
  /\ UNCHANGED <<letters, file, text, tmp, sent, marked, together>>

\* The bridge dies and is started again; the files stay.
InboxRestart ==
  /\ faults < MaxFaults
  /\ faults' = faults + 1 /\ lost' = lost \cup CutOff(Calls)
  /\ call' = [c \in Calls |-> NoCall]
  /\ UNCHANGED <<letters, file, text, tmp, sent, marked, together>>

Serve(c) ==
  \/ \E s \in Seconds : WriteMessage(c, s)
  \/ SendMessage(c) \/ RequestReview(c) \/ WriteShort(c)
  \/ \E n \in Names : MarkRead(c, n) \/ Look(c, n) \/ ListNext(c, n)
  \/ ReadText(c) \/ OpenTmp(c) \/ Put(c) \/ Replace(c) \/ ReplaceFails(c)
  \/ MarkMessageRead(c)
  \/ CheckMessages(c) \/ RecentActivity(c) \/ Listed(c)
  \/ WriteFails(c)

InboxNext ==
  \/ \E who \in Callers : Identified(who) /\ \E c \in Calls : Serve(c)
  \/ InboxRestart

-----------------------------------------------------------------------------

\* A letter whose sender was told "Sent" is in the file of its name, as far as it
\* was written there, at every moment but one: two calls marking it share one
\* temporary file, and the rename of the one may put the other's unwritten file
\* in its place.  That other is about to write it; only if it fails, or the bridge
\* dies, in the middle of that is the letter lost (_atomic_set_read_at).
SentIsKept ==
  \A m \in sent :
    LET n == m[2]
    IN  file[n].letter = m[1] \/ n \in lost \/ \E c \in Writers(n) : call[c].at = "file"

\* What was answered "marked" is never unread again (mark_read).
MarkedIsRead == \A n \in marked : file[n].is # "unread"

\* A listing that ends shows every letter that it should, that parses and that
\* was sent before it began, whatever files are written and renamed under it,
\* unless the limit is reached, the listing is one of unread letters and the
\* letter has been marked meanwhile, or two calls were marking it at one time
\* (list_messages).
ListingIsFull ==
  \A c \in Calls : call[c].step = "list" /\ call[c].todo = {} =>
    \/ Cardinality(call[c].counted) = Limit
    \/ \A n \in call[c].owed \ call[c].counted :
         (call[c].only = {"unread"} /\ file[n].is = "read") \/ n \in together

=============================================================================
