---------------------------- MODULE NoticeIntake ----------------------------
(***************************************************************************)
(* Official notices of src/src/commerce_agent/ingestion: the polls of the  *)
(* mailbox (email_notices.py), the rules a notice must meet                *)
(* (official_notices.py), and the submission that stores it, from a mail   *)
(* or from a message of the group (manual_submissions.py).  Each statement *)
(* of a submission is a transaction of its own; a poll or a submission may *)
(* fail between any two, and the process may restart.                      *)
(***************************************************************************)
EXTENDS Integers, Sequences, FiniteSets

CONSTANTS
  Mails,       \* numbers, in the order of their UIDs
  Letter,      \* of each: sender (known), size, attachment, and the notice it carries
  Notices,     \* notices: account, platform, host, empty, private
  Accounts,    \* of each reviewed account: platforms, hosts, transports
  MaxHand,     \* bound on the submissions from the group
  MaxRestarts  \* bound on the restarts

\* UIDs are numbers.
ASSUME NoticesAssumption ==
  /\ Mails \subseteq Nat /\ \A m \in Mails : Letter[m].notice \in Notices
  /\ MaxHand \in Nat /\ MaxRestarts \in Nat

VARIABLES
  arrived, seen,   \* mails in the folder, and those the server has flagged \Seen
  hashes,          \* mails whose UID hash the process remembers
  polling,         \* does a poll run
  fetched,         \* mails it has fetched and not judged yet, in order
  accepted,        \* mails it has accepted and not submitted yet, in order
  unaudited,       \* submissions whose version is stored and audit is not
  stored,          \* notices with a version
  audits,          \* audit rows, by notice and transport
  hand, restarts   \* counters of the bounds

noticeVars == <<arrived, seen, hashes, polling, fetched, accepted, unaudited, stored, audits,
                hand, restarts>>

Transports == {"email", "feishu"}

NoticeInit ==
  /\ arrived = {} /\ seen = {} /\ hashes = {}
  /\ polling = FALSE
  /\ fetched = <<>> /\ accepted = <<>>
  /\ unaudited = {}
  /\ stored = {}
  /\ audits = [s \in Notices \X Transports |-> 0]
  /\ hand = 0 /\ restarts = 0

----------------------------------------------------------------------------
(***************************************************************************)
(* What is accepted.                                                       *)
(***************************************************************************)

\* validate_notice: a reviewed account that publishes on this platform and by this
\* transport, a link to one of its hosts, a content, and no private data.
ValidNotice(n, transport) ==
  /\ n.account \in DOMAIN Accounts
  /\ n.platform \in Accounts[n.account].platforms
  /\ transport \in Accounts[n.account].transports
  /\ n.host \in Accounts[n.account].hosts
  /\ ~n.empty /\ ~n.private

\* _poll_sync, one mail: a known sender, a size and attachments within bounds, a notice.
AcceptedMail(m) ==
  /\ Letter[m].sender = "known"
  /\ Letter[m].size = "small" /\ Letter[m].attachment \in {"none", "text"}
  /\ ValidNotice(Letter[m].notice, "email")

----------------------------------------------------------------------------
(***************************************************************************)
(* The poll.                                                               *)
(***************************************************************************)
MailArrives(m) ==
  /\ m \notin arrived
  /\ arrived' = arrived \cup {m}
  /\ UNCHANGED <<seen, hashes, polling, fetched, accepted, unaudited, stored, audits, hand, restarts>>

\* Mutant: the search is for all mails.
AllMails == arrived

\* The search of fetch_unseen.
UnseenMails == arrived \ seen

InOrder(mails) ==
  CHOOSE s \in [1..Cardinality(mails) -> mails] : \A i, j \in DOMAIN s : i < j => s[i] < s[j]

\* fetch_unseen: to fetch a message whole flags it \Seen; one whose fetch fails is left
\* out.  A broken connection or message ends the poll.
FetchUnseen ==
  /\ ~polling
  /\ \E got \in SUBSET UnseenMails :
       /\ seen' = seen \cup got
       /\ \/ polling' = TRUE /\ fetched' = InOrder(got)
          \/ polling' = FALSE /\ UNCHANGED fetched
  /\ UNCHANGED <<arrived, hashes, accepted, unaudited, stored, audits, hand, restarts>>

\* A mail that is remembered or not acceptable is passed over.
PassOver ==
  /\ fetched # <<>>
  /\ Head(fetched) \in hashes \/ ~AcceptedMail(Head(fetched))
  /\ fetched' = Tail(fetched)
  /\ UNCHANGED <<arrived, seen, hashes, polling, accepted, unaudited, stored, audits, hand, restarts>>

\* An accepted mail is flagged on the server and then remembered.
Accept ==
  /\ fetched # <<>>
  /\ Head(fetched) \notin hashes /\ AcceptedMail(Head(fetched))
  /\ fetched' = Tail(fetched)
  /\ accepted' = Append(accepted, Head(fetched))
  /\ seen' = seen \cup {Head(fetched)}
  /\ hashes' = hashes \cup {Head(fetched)}
  /\ UNCHANGED <<arrived, polling, unaudited, stored, audits, hand, restarts>>

----------------------------------------------------------------------------
(***************************************************************************)
(* submit_notice.                                                          *)
(***************************************************************************)

\* persist_version: the version of this address and content, unless it is there.
Persist(s) == stored' = stored \cup {s[1]} /\ unaudited' = unaudited \cup {s} /\ UNCHANGED audits

\* The submission of a mail is not over yet.
AuditPending == \E n \in Notices : <<n, "email">> \in unaudited

\* run_all submits what the poll accepted, one after another.
SubmitMail ==
  /\ polling /\ fetched = <<>> /\ accepted # <<>> /\ ~AuditPending
  /\ Persist(<<Letter[Head(accepted)].notice, "email">>)
  /\ accepted' = Tail(accepted)
  /\ UNCHANGED <<arrived, seen, hashes, polling, fetched, hand, restarts>>

\* ManualSubmissionService.submit for a message of the group.  One submission of a notice
\* by hand is under way at a time: two at once store and audit what two in turn do.
SubmitByHand(n) ==
  /\ hand < MaxHand /\ ValidNotice(n, "feishu") /\ <<n, "feishu">> \notin unaudited
  /\ Persist(<<n, "feishu">>)
  /\ hand' = hand + 1
  /\ UNCHANGED <<arrived, seen, hashes, polling, fetched, accepted, restarts>>

\* record_official_notice_audit, under a fresh id.
Audit(s) ==
  /\ s \in unaudited
  /\ audits' = [audits EXCEPT ![s] = @ + 1]
  /\ unaudited' = unaudited \ {s}
  /\ UNCHANGED <<arrived, seen, hashes, polling, fetched, accepted, stored, hand, restarts>>

EndPoll ==
  /\ polling /\ fetched = <<>> /\ accepted = <<>> /\ ~AuditPending
  /\ polling' = FALSE
  /\ UNCHANGED <<arrived, seen, hashes, fetched, accepted, unaudited, stored, audits, hand, restarts>>

\* Any statement of a poll or of its submissions raises, or its job is cancelled: what it
\* holds is dropped.
AbandonPoll ==
  /\ polling
  /\ polling' = FALSE /\ fetched' = <<>> /\ accepted' = <<>>
  /\ unaudited' = {s \in unaudited : s[2] # "email"}
  /\ UNCHANGED <<arrived, seen, hashes, stored, audits, hand, restarts>>

Restart ==
  /\ restarts < MaxRestarts
  /\ restarts' = restarts + 1
  /\ polling' = FALSE /\ fetched' = <<>> /\ accepted' = <<>> /\ unaudited' = {}
  /\ hashes' = {}
  /\ UNCHANGED <<arrived, seen, stored, audits, hand>>

NoticeNext ==
  \/ \E m \in Mails : MailArrives(m)
  \/ FetchUnseen \/ PassOver \/ Accept \/ SubmitMail \/ EndPoll \/ AbandonPoll \/ Restart
  \/ \E n \in Notices : SubmitByHand(n)
  \/ \E s \in unaudited : Audit(s)

NoticeSpec == NoticeInit /\ [][NoticeNext]_noticeVars

----------------------------------------------------------------------------
(***************************************************************************)
(* Properties.                                                             *)
(***************************************************************************)
NoticeTypeOK ==
  /\ arrived \subseteq Mails /\ seen \subseteq arrived /\ hashes \subseteq seen
  /\ polling \in BOOLEAN
  /\ fetched \in Seq(Mails) /\ accepted \in Seq(Mails)
  /\ stored \subseteq Notices /\ unaudited \subseteq Notices \X Transports
  /\ DOMAIN audits = Notices \X Transports
  /\ hand \in 0..MaxHand /\ restarts \in 0..MaxRestarts

\* A mail is submitted once, also when the process forgets the UIDs it has handled: a
\* notice has no more audits by mail than mails that carry it.
MailSubmittedOnce ==
  \A n \in Notices :
    audits[<<n, "email">>] <= Cardinality({m \in arrived : Letter[m].notice = n /\ AcceptedMail(m)})
=============================================================================
