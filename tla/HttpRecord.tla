------------------------------- MODULE HttpRecord -------------------------------
(***************************************************************************)
(* Recorded requests (lib/http-record): a request is sent and, with its    *)
(* response, written to a file (generate.ts); the finder answers requests  *)
(* from the files of a directory (find.ts).  It keeps what the files ask   *)
(* for in memory and reads the list again when the directory changes, but  *)
(* takes the response from the file when it is needed.                     *)
(*                                                                         *)
(* A request is its method, its url without origin, and its payload.       *)
(***************************************************************************)
EXTENDS Naturals, FiniteSets

CONSTANTS
  Methods, Targets,   \* of requests; a method is compared without case
  Recorders,          \* calls of recordHttpRequest
  Top,                \* files in the directory itself: a range of numbers,
  Nested,             \* and those below it, in the order of getFileList
  MaxAnswers,         \* bound on answers of the recorded server
  MaxEdits,           \* bound on edits of files
  Undefined, NoRecord

RecordNames == Top \cup Nested
HttpOptions == [method : Methods \cup {Undefined}, target : Targets \cup {Undefined}]
RequestsSent == [method : Methods, target : Targets]

VARIABLES
  records,   \* the file of each name: [request, ignore, response], or NoRecord
  listed,    \* what the finder has in memory of each: [request, ignore], or NoRecord
  changed,   \* an event of fs.watch is on its way
  unseen,    \* history: a file below the directory changed since the list was read
  sending,   \* of each recorder: the request under way and its file, or NoRecord
  answers,   \* answers of the server so far: each is its own number
  found,     \* history: the last search, [request, settled, record], or NoRecord
  retouched  \* edits so far

recordVars == <<records, listed, changed, unseen, sending, answers, found, retouched>>

-----------------------------------------------------------------------------
(* mergeTwoHttpRequestOptions: what the second has goes first.             *)
MergeOptions(first, second) ==
  [first EXCEPT !.method = IF second.method # Undefined THEN second.method ELSE @,
                !.target = IF second.target # Undefined THEN second.target ELSE @]

(* recordHttpRequest with the options of a request file and the defaults.  *)
Send(r, n, options, defaults) ==
  /\ sending[r] = NoRecord
  /\ MergeOptions(options, defaults) \in RequestsSent
  /\ sending' = [sending EXCEPT ![r] = [request |-> MergeOptions(options, defaults), name |-> n]]
  /\ UNCHANGED <<records, listed, changed, unseen, answers, found, retouched>>

\* A write makes an event, unless it is below the directory.
Written(n, record) ==
  /\ records' = [records EXCEPT ![n] = record]
  /\ changed' = (changed \/ n \in Top)
  /\ unseen' = (unseen \/ n \in Nested)

(* recordHttpRequestResult, with whatever answer comes last.               *)
Record(r) ==
  /\ sending[r] # NoRecord /\ answers < MaxAnswers
  /\ answers' = answers + 1
  /\ Written(sending[r].name,
             [request |-> sending[r].request, ignore |-> FALSE, response |-> answers + 1])
  /\ sending' = [sending EXCEPT ![r] = NoRecord]
  /\ UNCHANGED <<listed, found, retouched>>

(* An error, or a status that validateStatus refuses: nothing is written.  *)
RequestFails(r) ==
  /\ sending[r] # NoRecord
  /\ sending' = [sending EXCEPT ![r] = NoRecord]
  /\ UNCHANGED <<records, listed, changed, unseen, answers, found, retouched>>

(* Somebody sets `ignore' in a file, or removes it.                        *)
EditRecord(n) ==
  /\ records[n] # NoRecord /\ retouched < MaxEdits
  /\ retouched' = retouched + 1
  /\ \E record \in {NoRecord, [records[n] EXCEPT !.ignore = ~@]} : Written(n, record)
  /\ UNCHANGED <<listed, sending, answers, found>>

-----------------------------------------------------------------------------
\* What require gives of a file without its response.
Listing(n) == IF records[n] = NoRecord THEN NoRecord
              ELSE [request |-> records[n].request, ignore |-> records[n].ignore]

\* Mutant: files known already are not read again.
UpdateFileListNew ==
  /\ changed
  /\ listed' = [n \in RecordNames |-> IF listed[n] = NoRecord THEN Listing(n) ELSE listed[n]]
  /\ changed' = FALSE /\ unseen' = FALSE
  /\ UNCHANGED <<records, sending, answers, found, retouched>>

UpdateFileList ==
  /\ changed
  /\ listed' = [n \in RecordNames |-> Listing(n)]
  /\ changed' = FALSE /\ unseen' = FALSE
  /\ UNCHANGED <<records, sending, answers, found, retouched>>

(* findRecordFile: the first that fits.                                    *)
Matches(n, q) == listed[n] # NoRecord /\ ~listed[n].ignore /\ listed[n].request = q

(* The finder: the response is read from the file as it is by now; a file  *)
(* that is gone makes it throw.                                            *)
FindRecord(q) ==
  /\ \E n \in RecordNames :
       /\ Matches(n, q) /\ \A m \in RecordNames : Matches(m, q) => n <= m
       /\ found' = [request |-> q, settled |-> ~changed /\ ~unseen, record |-> records[n]]
  /\ UNCHANGED <<records, listed, changed, unseen, sending, answers, retouched>>

RecordInit ==
  /\ records = [n \in RecordNames |-> NoRecord]
  /\ listed = [n \in RecordNames |-> NoRecord]
  /\ changed = FALSE /\ unseen = FALSE
  /\ sending = [r \in Recorders |-> NoRecord]
  /\ answers = 0 /\ found = NoRecord /\ retouched = 0

RecordNext ==
  \/ \E r \in Recorders, n \in RecordNames, o, d \in HttpOptions : Send(r, n, o, d)
  \/ \E r \in Recorders : Record(r) \/ RequestFails(r)
  \/ \E n \in RecordNames : EditRecord(n)
  \/ UpdateFileList
  \/ \E q \in RequestsSent : FindRecord(q)

RecordSpec == RecordInit /\ [][RecordNext]_recordVars

-----------------------------------------------------------------------------
(* Once the events of its directory have come and no file below it has     *)
(* changed, the finder answers a request with a response that was recorded *)
(* for it, from a file that is to be used (find.ts:122, the list in memory *)
(* against the file that is read).                                         *)
FoundFits ==
  found # NoRecord /\ found.settled =>
    /\ found.record # NoRecord
    /\ ~found.record.ignore
    /\ found.record.request = found.request
=============================================================================
