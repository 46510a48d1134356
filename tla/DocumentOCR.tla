----------------------------- MODULE DocumentOCR -----------------------------
(***************************************************************************)
(* The transcription of the scanned pages of a files source                *)
(* (cdk/build_scripts/document_ocr.py, convert_docs.py): worker threads    *)
(* send pages to the model within a build's budget of new pages, successes *)
(* are cached in the container and in S3, and a build that could not       *)
(* transcribe every page fails before anything is published.  The module   *)
(* follows one build at a time; another build of the source may run beside *)
(* it, as a manual rebuild is let in after half an hour and nothing locks  *)
(* S3's cache (platform_api/handler.py:1213), and what it puts there       *)
(* appears at any moment.                                                  *)
(*                                                                         *)
(* A page stands for its cache key: the hash of the document, the number   *)
(* of the page and the prompt.  Pages of one document have distinct keys,  *)
(* so the lock per key never waits; copies of a document share their keys. *)
(* Every gate `_remaining` is part of the step it guards.  Pages with text *)
(* of their own, images, headings and the split into parts are left out,   *)
(* as is the text: a page has it or not.                                   *)
(***************************************************************************)
EXTENDS Integers, FiniteSets

CONSTANTS
  Page,           \* the cache keys of the scanned pages
  Docs,           \* number of PDFs in the corpus
  PagesOf(_),     \* document -> its scanned pages
  Workers,        \* DOCUMENT_OCR_WORKERS
  MaxNewPages,    \* DOCUMENT_OCR_MAX_NEW_PAGES
  MaxAttempts,    \* MAX_ATTEMPTS
  MaxFaults       \* bound: failed calls and files, deadlines, killed builds

VARIABLES
  doc,        \* the document the build converts; 0: no build runs
  job,        \* page of it -> what its thread does next
  attempt,    \* page -> model calls that failed in this job
  cancelled,  \* the document's deadline has passed
  reserved,   \* _reserved_keys of this build: its new pages
  kept,       \* the container's cache
  remote,     \* the cache in S3
  failed,     \* a document of this build failed
  converted,  \* a build ended well
  sent,       \* history: pages this build sent to the model
  held,       \* history: pages S3 held when this build began, or when it
              \* read or wrote them
  repaid,     \* history: pages this build sent although they were held
  faults      \* faults there may yet be

ocrVars == <<doc, job, attempt, cancelled, reserved, kept, remote, failed,
             converted, sent, held, repaid, faults>>

Busy == {"read", "reserve", "call", "put", "keep"}
Fault == faults > 0 /\ faults' = faults - 1
Now(p, step) == job[p] = step /\ ~cancelled
Goto(p, step) == job' = [job EXCEPT ![p] = step]

(* The pages of a document, before any thread has taken one.                *)
Submitted(d) == [p \in Page |-> IF d \in 1 .. Docs /\ p \in PagesOf(d) THEN "queued" ELSE "done"]

Init ==
  /\ doc = 0 /\ job = Submitted(0) /\ attempt = [p \in Page |-> 0]
  /\ cancelled = FALSE /\ reserved = {} /\ kept = {} /\ remote = {}
  /\ failed = FALSE /\ converted = FALSE
  /\ sent = {} /\ held = {} /\ repaid = {} /\ faults = MaxFaults

(* A build in a new container; a failed build is tried again by the poller. *)
Start ==
  /\ doc = 0 /\ ~converted
  /\ doc' = 1 /\ job' = Submitted(1) /\ attempt' = [p \in Page |-> 0]
  /\ cancelled' = FALSE /\ reserved' = {} /\ kept' = {} /\ failed' = FALSE
  /\ sent' = {} /\ held' = remote
  /\ UNCHANGED <<remote, converted, repaid, faults>>

(* A free thread of the pool takes a page.                                  *)
Take(p) ==
  /\ Now(p, "queued")
  /\ Cardinality({q \in Page : job[q] \in Busy}) < Workers
  /\ Goto(p, "read")
  /\ UNCHANGED <<doc, attempt, cancelled, reserved, kept, remote, failed, converted,
                 sent, held, repaid, faults>>

(* A page S3 has is kept in the container.                                  *)
ReadCache(p) ==
  /\ Now(p, "read")
  /\ Goto(p, IF p \in kept \cup remote THEN "done" ELSE "reserve")
  /\ kept' = kept \cup ({p} \cap remote) /\ held' = held \cup ({p} \cap remote)
  /\ UNCHANGED <<doc, attempt, cancelled, reserved, remote, failed, converted,
                 sent, repaid, faults>>

(* A page is counted when it is first to be sent, under the lock.           *)
Spare == Cardinality(reserved) < MaxNewPages

Reserve(p) ==
  /\ Now(p, "reserve")
  /\ \/ p \in reserved /\ Goto(p, "call") /\ UNCHANGED reserved
     \/ p \notin reserved /\ Spare /\ reserved' = reserved \cup {p} /\ Goto(p, "call")
     \/ p \notin reserved /\ ~Spare /\ Goto(p, "failed") /\ UNCHANGED reserved
  /\ UNCHANGED <<doc, attempt, cancelled, kept, remote, failed, converted,
                 sent, held, repaid, faults>>

(* One call of the model: a transcription, a failure that is tried again or *)
(* one that is not.                                                         *)
Call(p) ==
  /\ Now(p, "call")
  /\ sent' = sent \cup {p}
  /\ repaid' = repaid \cup ({p} \cap held)
  /\ Goto(p, "put")
  /\ UNCHANGED <<doc, attempt, cancelled, reserved, kept, remote, failed, converted, held, faults>>

CallFails(p) ==
  /\ Now(p, "call") /\ Fault
  /\ sent' = sent \cup {p} /\ repaid' = repaid \cup ({p} \cap held)
  /\ \/ /\ attempt[p] + 1 < MaxAttempts
        /\ attempt' = [attempt EXCEPT ![p] = @ + 1] /\ UNCHANGED job
     \/ Goto(p, "failed") /\ UNCHANGED attempt
  /\ UNCHANGED <<doc, cancelled, reserved, kept, remote, failed, converted, held>>

(* S3 first, then the container: what was paid for outlives the build.      *)
Put(p) ==
  /\ Now(p, "put")
  /\ remote' = remote \cup {p} /\ held' = held \cup {p} /\ Goto(p, "keep")
  /\ UNCHANGED <<doc, attempt, cancelled, reserved, kept, failed, converted,
                 sent, repaid, faults>>

Keep(p) ==
  /\ Now(p, "keep")
  /\ kept' = kept \cup {p} /\ Goto(p, "done")
  /\ UNCHANGED <<doc, attempt, cancelled, reserved, remote, failed, converted,
                 sent, held, repaid, faults>>

(* What a failed read or write of a cache ends in; mutant: a page that   *)
(* cannot be read is taken for one that is not there.                    *)
AfterErrorMissing(step) == IF step = "read" THEN "reserve" ELSE "failed"
AfterError(step) == "failed"

(* A page of the PDF that cannot be copied, a cache that cannot be read or *)
(* written.                                                                *)
Breaks(p) ==
  /\ job[p] \in {"queued", "read", "put", "keep"} /\ ~cancelled /\ Fault
  /\ Goto(p, AfterError(job[p]))
  /\ held' = IF job[p] = "read" THEN held \cup ({p} \cap remote) ELSE held
  /\ UNCHANGED <<doc, attempt, cancelled, reserved, kept, remote, failed, converted,
                 sent, repaid>>

(* The deadline: waiting pages never start, the others fail at a gate.      *)
Late ==
  /\ doc # 0 /\ ~cancelled /\ \E p \in Page : job[p] \in Busy \cup {"queued"}
  /\ Fault
  /\ cancelled' = TRUE
  /\ job' = [p \in Page |-> IF job[p] = "queued" THEN "failed" ELSE job[p]]
  /\ UNCHANGED <<doc, attempt, reserved, kept, remote, failed, converted, sent, held, repaid>>

Stop(p) ==
  /\ cancelled /\ job[p] \in Busy /\ Goto(p, "failed")
  /\ UNCHANGED <<doc, attempt, cancelled, reserved, kept, remote, failed, converted,
                 sent, held, repaid, faults>>

(* The document is converted if all its pages are and the rest of it is not *)
(* spoilt; the next document follows in any case, and then the build goes   *)
(* on to the graph or fails.                                                *)
Close(spoilt) ==
  LET bad == failed \/ cancelled \/ spoilt \/ \E p \in Page : job[p] = "failed" IN
  /\ doc # 0 /\ \A p \in Page : job[p] \in {"done", "failed"}
  /\ failed' = bad /\ cancelled' = FALSE
  /\ doc' = IF doc = Docs THEN 0 ELSE doc + 1
  /\ job' = Submitted(doc') /\ attempt' = [p \in Page |-> 0]
  /\ converted' = (doc = Docs /\ ~bad)
  /\ UNCHANGED <<reserved, kept, remote, sent, held, repaid>>

(* The build's container ends.                                              *)
Kill ==
  /\ doc # 0 /\ Fault
  /\ doc' = 0 /\ job' = Submitted(0)
  /\ UNCHANGED <<attempt, cancelled, reserved, kept, remote, failed, converted, sent, held, repaid>>

(* A build that runs beside this one puts a page it paid for.              *)
OtherPut(p) ==
  /\ remote' = remote \cup {p}
  /\ UNCHANGED <<doc, job, attempt, cancelled, reserved, kept, failed, converted,
                 sent, held, repaid, faults>>

Process(p) == Take(p) \/ ReadCache(p) \/ Reserve(p) \/ Call(p) \/ Put(p) \/ Keep(p) \/ Stop(p)

Work == Start \/ (Close(FALSE) /\ UNCHANGED faults) \/ \E p \in Page : Process(p)

Next == Work \/ (Close(TRUE) /\ Fault) \/ Late \/ Kill
        \/ \E p \in Page : CallFails(p) \/ Breaks(p) \/ OtherPut(p)

Spec == Init /\ [][Next]_ocrVars /\ WF_ocrVars(Work)

-----------------------------------------------------------------------------
(* "must never silently trigger another paid generation": the threads of a *)
(* build send no more pages than its budget, and none that S3 held when    *)
(* the build began, when the thread read the cache, or since the build put *)
(* it there.  A page that a build beside it puts after that read is paid   *)
(* for by both: no lock spans them (_read_cache, process_page).            *)
OcrSpendIsBounded == Cardinality(sent) <= MaxNewPages /\ repaid = {}

(* The budget of a build is no limit of the corpus: what each build paid *)
(* for is kept, and in the end a build converts every document (Put,     *)
(* _transcribe_pages).                                                   *)
CorpusIsConverted == <>[]converted

(* Both, over the builds of a corpus.                                       *)
PagesArePaidOnce == []OcrSpendIsBounded /\ CorpusIsConverted

=============================================================================
