---------------------------- MODULE Certificates ----------------------------
(***************************************************************************)
(* The SAFT certificate a purchase is mailed: PresaleBuyHandler's          *)
(* sendSAFTCertificate with the PDF and mail services it calls, and the    *)
(* controller's test request.  A certificate is named after the            *)
(* millisecond its sending began in.  It is written to a file of that name,*)
(* uploaded under the purchase's transaction hash, attached to a mail and  *)
(* recorded in the activity feed.  Several senders work at once: the poll  *)
(* loop, the reprocessing requests and the test requests; and a purchase   *)
(* handled again is certified again.  What the pages say is left out, but  *)
(* for whose purchase they are about.                                      *)
(***************************************************************************)
EXTENDS Integers, FiniteSets

CONSTANTS
  Senders,
  Purchases,        \* the purchases, records [tx, log]
  Sample,           \* what the test request certifies
  MaxTime,          \* bound: milliseconds
  MaxSends,         \* bound: sendings begun
  MaxFailures       \* bound: failed calls and crashes

Documents == Purchases \cup {Sample}

\* A transaction hash is in hexadecimal, a test's is not.
TestIds   == {"0xTEST"} \X (0..MaxTime)

ASSUME CertificatesAssumption ==
  /\ \A p \in Purchases : DOMAIN p = {"tx", "log"} /\ p.tx \notin TestIds
  /\ Sample \notin Purchases
  /\ MaxTime \in Nat
  /\ MaxSends \in Nat
  /\ MaxFailures \in Nat

VARIABLES
  now,          \* Date.now()
  file,         \* the files of PDF_OUTPUT_DIR, by reference
  cloud,        \* the uploaded copies, by public id
  mailed,       \* the mails the mail server accepted
  activity,     \* the rows 'SAFT Certificate Sent'
  sender,       \* locals of each sender
  began,        \* history: the sendings with an address, by kind and millisecond
  cutShort,     \* history: sendings that crashed, hung or failed to record
  sends,        \* how much of MaxSends is used up
  failures      \* how much of MaxFailures is used up

certVars == <<now, file, cloud, mailed, activity, sender, began, cutShort, sends, failures>>

Instants   == {"MLC", "MLC-TEST"} \X (0..MaxTime)
References == Instants
PublicIds  == {p.tx : p \in Purchases} \cup TestIds

NoFile == [pages |-> {}, whole |-> FALSE]
NoCopy == [file |-> NoFile, at |-> <<"none", 0>>]
Free   == [pc |-> "free", doc |-> Sample, at |-> <<"none", 0>>, ref |-> <<"none", 0>>,
           url |-> FALSE, sent |-> FALSE]

SomeCallFails == failures < MaxFailures /\ failures' = failures + 1

At(s, pc) == sender[s].pc = pc
MoveTo(s, pc) == sender' = [sender EXCEPT ![s].pc = pc]

-----------------------------------------------------------------------------
\* MLC-${Date.now().toString(36)}, MLC-TEST-${...}.
EverySecondInstant(at) == <<at[1], at[2] - (at[2] % 2)>>
Reference(at) == at

\* saft_${txHash}
PublicId(doc, at) == IF doc = Sample THEN <<"0xTEST", at[2]>> ELSE doc.tx

Send(s, doc) ==
  /\ At(s, "free")
  /\ sends < MaxSends
  /\ sends' = sends + 1
  /\ LET at == <<IF doc = Sample THEN "MLC-TEST" ELSE "MLC", now>>
     IN sender' = [sender EXCEPT ![s] =
          [pc |-> "lookup", doc |-> doc, at |-> at, ref |-> Reference(at),
           url |-> FALSE, sent |-> FALSE]]
  /\ UNCHANGED <<now, file, cloud, mailed, activity, began, cutShort, failures>>

\* getUserEmail: a wallet without an address, like a failing query, ends it.
\* A test brings its own address.
Lookup(s) ==
  /\ At(s, "lookup")
  /\ \/ /\ MoveTo(s, "open")
        /\ began' = [began EXCEPT ![sender[s].at] = @ + 1]
     \/ /\ sender[s].doc # Sample
        /\ sender' = [sender EXCEPT ![s] = Free]
        /\ UNCHANGED began
  /\ UNCHANGED <<now, file, cloud, mailed, activity, cutShort, sends, failures>>

AfterOpen == "write"

\* createWriteStream empties the file if it is there.
Open(s) ==
  /\ At(s, "open")
  /\ file' = [file EXCEPT ![sender[s].ref] = NoFile]
  /\ MoveTo(s, AfterOpen)
  /\ UNCHANGED <<now, cloud, mailed, activity, began, cutShort, sends, failures>>

\* The stream's finish event.  Of two streams to one file, the second to end
\* covers the pages of the first or leaves the longer one's tail.
Finish(s) ==
  /\ At(s, "write")
  /\ \E pages \in {{sender[s].doc}, file[sender[s].ref].pages \cup {sender[s].doc}} :
       file' = [file EXCEPT ![sender[s].ref] = [pages |-> pages, whole |-> TRUE]]
  /\ MoveTo(s, "upload")
  /\ UNCHANGED <<now, cloud, mailed, activity, began, cutShort, sends, failures>>

\* The PDF or its stream fails: nothing is mailed and nothing is recorded.
PdfFails(s) ==
  /\ sender[s].pc \in {"open", "write"}
  /\ SomeCallFails
  /\ sender' = [sender EXCEPT ![s] = Free]
  /\ UNCHANGED <<now, file, cloud, mailed, activity, began, cutShort, sends>>

\* Without the upload, the mail goes out all the same.
Upload(s) ==
  /\ At(s, "upload")
  /\ LET me == sender[s] IN
       \/ /\ cloud' = [cloud EXCEPT ![PublicId(me.doc, me.at)] =
                        [file |-> file[me.ref], at |-> me.at]]
          /\ sender' = [sender EXCEPT ![s].pc = "mail", ![s].url = TRUE]
          /\ UNCHANGED failures
       \/ SomeCallFails /\ MoveTo(s, "mail") /\ UNCHANGED cloud
  /\ UNCHANGED <<now, file, mailed, activity, began, cutShort, sends>>

ReportsSent(accepted, answered) == accepted /\ answered

RecordIfSent(doc, sent)   == IF sent THEN "record" ELSE "free"
RecordAnyway(doc, sent)   == IF doc = Sample THEN "free" ELSE "record"

\* The mail server refuses the mail (status 400 and above), or the connection
\* breaks, before or after it accepted the mail.  A test may do without.
Mail(s) ==
  /\ At(s, "mail")
  /\ LET me == sender[s] IN
       \/ \E accepted, answered \in BOOLEAN :
            /\ IF accepted /\ answered THEN UNCHANGED failures ELSE SomeCallFails
            /\ mailed' = IF accepted
                 THEN mailed \cup {[doc |-> me.doc, at |-> me.at, ref |-> me.ref,
                                    attachment |-> file[me.ref]]}
                 ELSE mailed
            /\ LET sent == ReportsSent(accepted, answered)
               IN sender' = [sender EXCEPT ![s].pc = RecordAnyway(me.doc, sent), ![s].sent = sent]
       \/ me.doc = Sample /\ MoveTo(s, "free") /\ UNCHANGED <<mailed, failures>>
  /\ UNCHANGED <<now, file, cloud, activity, began, cutShort, sends>>

Key(me) == [doc |-> me.doc, ref |-> me.ref]

\* The request to the mail server has no timeout.
Hang(s) ==
  /\ At(s, "mail")
  /\ SomeCallFails
  /\ MoveTo(s, "hung")
  /\ \E mail \in SUBSET {[doc |-> sender[s].doc, at |-> sender[s].at, ref |-> sender[s].ref,
                          attachment |-> file[sender[s].ref]]} : mailed' = mailed \cup mail
  /\ cutShort' = cutShort \cup {Key(sender[s])}
  /\ UNCHANGED <<now, file, cloud, activity, began, sends>>

\* A failure to write the row is logged and passed over.
Record(s) ==
  /\ At(s, "record")
  /\ LET me == sender[s] IN
       \/ /\ activity' = activity \cup
               {[doc |-> me.doc, ref |-> me.ref, url |-> me.url, emailSent |-> me.sent]}
          /\ UNCHANGED <<cutShort, failures>>
       \/ /\ SomeCallFails
          /\ cutShort' = cutShort \cup {Key(me)}
          /\ UNCHANGED activity
  /\ sender' = [sender EXCEPT ![s] = Free]
  /\ UNCHANGED <<now, file, cloud, mailed, began, sends>>

Tick ==
  /\ now < MaxTime
  /\ now' = now + 1
  /\ UNCHANGED <<file, cloud, mailed, activity, sender, began, cutShort, sends, failures>>

\* A restart takes longer than a millisecond.  The files are still there.
Restart ==
  /\ now < MaxTime
  /\ now' = now + 1
  /\ \E s \in Senders : ~At(s, "free")
  /\ SomeCallFails
  /\ sender' = [s \in Senders |-> Free]
  /\ cutShort' = cutShort \cup {Key(sender[s]) : s \in Senders}
  /\ UNCHANGED <<file, cloud, mailed, activity, began, sends>>

-----------------------------------------------------------------------------
CertInit ==
  /\ now = 0
  /\ file = [r \in References |-> NoFile]
  /\ cloud = [id \in PublicIds |-> NoCopy]
  /\ mailed = {}
  /\ activity = {}
  /\ sender = [s \in Senders |-> Free]
  /\ began = [at \in Instants |-> 0]
  /\ cutShort = {}
  /\ sends = 0
  /\ failures = 0

CertNext ==
  \/ Tick \/ Restart
  \/ \E s \in Senders, doc \in Documents : Send(s, doc)
  \/ \E s \in Senders : Lookup(s) \/ Open(s) \/ Finish(s) \/ PdfFails(s)
                          \/ Upload(s) \/ Mail(s) \/ Hang(s) \/ Record(s)

CertSpec == CertInit /\ [][CertNext]_certVars

-----------------------------------------------------------------------------
(***************************************************************************)
(* Properties                                                              *)
(***************************************************************************)

CertTypeOK ==
  /\ now \in 0..MaxTime
  /\ file \in [References -> [pages : SUBSET Documents, whole : BOOLEAN]]
  /\ \A m \in mailed : m.doc \in Documents /\ m.ref \in References
  /\ \A row \in activity : row.doc \in Purchases /\ row.ref \in References
  /\ DOMAIN sender = Senders
  /\ failures \in 0..MaxFailures

\* The only sending of its kind in its millisecond.
AloneInItsInstant(at) == began[at] = 1

OwnCertificate(doc) == [pages |-> {doc}, whole |-> TRUE]

\* A mail carries the whole certificate of its own purchase, and the reference
\* it quotes finds that certificate for good: later sendings, redeliveries and
\* restarts included.  What is uploaded under a transaction hash is the whole
\* certificate of a purchase of that transaction.  Neither holds where two
\* sendings began in the same millisecond.
CertificatesAreTheirOwn ==
  /\ \A m \in mailed : AloneInItsInstant(m.at) =>
       m.attachment = OwnCertificate(m.doc) /\ file[m.ref] = m.attachment
  /\ \A id \in {p.tx : p \in Purchases} :
       cloud[id] # NoCopy /\ AloneInItsInstant(cloud[id].at) =>
         \E p \in Purchases : p.tx = id /\ cloud[id].file = OwnCertificate(p)

\* "Always store the activity record": a purchase's mail has its row in the
\* activity feed, whatever became of the upload and of the mail server's answer,
\* unless its sender is about to write it, hung, crashed or failed to write it.
\* And a row that says the mail was sent, or that there is a copy to download,
\* is right: emailSent is no more than what the mail server accepted.
RecordsAreTrue ==
  /\ \A m \in mailed : m.doc # Sample =>
       \/ \E row \in activity : row.doc = m.doc /\ row.ref = m.ref
       \/ \E s \in Senders : At(s, "record") /\ Key(sender[s]) = Key(m)
       \/ Key(m) \in cutShort
  /\ \A row \in activity :
       /\ row.emailSent => \E m \in mailed : Key(m) = Key(row)
       /\ row.url => cloud[row.doc.tx] # NoCopy
=============================================================================
