--------------------------- MODULE CredentialTest ---------------------------
(***************************************************************************)
(* The AWS credential of a scope and its tests.  A test calls the provider *)
(* outside any transaction: a durable claim under the caller's key comes   *)
(* before the call, and the identity, the evidence of the revision and the *)
(* answer are committed together after it.  Meanwhile the credential may   *)
(* be replaced or deleted, statements may fail, commits may be answered    *)
(* with an error although they happened, and the process may stop.         *)
(*                                                                         *)
(* Abstractions.  A key always asks for the same revision of the same      *)
(* credential, so the row of its claim stands for the claim id.  A waiter  *)
(* gives up at any moment (its deadline, or its context).  Secrets and     *)
(* their encryption are left out, as is the guard that keeps a credential  *)
(* of retained Workers.                                                    *)
(***************************************************************************)
EXTENDS Integers, FiniteSets

CONSTANTS CTCreds, CTKeys, CTCallers,
          CTBinding,     \* the [cred, rev] that each key asks for
          CTIdentities,  \* what GetCallerIdentity may answer
          CTRevisions,   \* bound: revisions of a credential
          CTSettings     \* bounds: [faults, crashes, plain]

ASSUME CredentialTestAssumption ==
    /\ CTRevisions \in Nat \ {0} /\ IsFiniteSet(CTCreds)
    /\ CTBinding \in [CTKeys -> [cred : CTCreds, rev : 1..CTRevisions]]
    /\ CTSettings \subseteq [faults : Nat, crashes : Nat, plain : Nat]

VARIABLES
    ctcred,    \* core_aws_credentials: [rev, live, verified, account]; account is a set
    ctevid,    \* core_aws_credential_revision_evidence, as a set of at most one identity
    ctclaim,   \* core_aws_credential_test_claims: [state, response]
    ctcall,    \* the calls of the service: [pc, key, cred, rev, ident]
    ctsts,     \* history: provider calls made under a key
    cttold,    \* history: what callers with a key were told
    ctleft     \* what is left of the bounds

ctRows == <<ctcred, ctevid, ctclaim>>
ctVars == <<ctRows, ctcall, ctsts, cttold, ctleft>>

NoCall == [pc |-> "idle"]
NoClaim == [state |-> "none", response |-> {}]

CredentialInit ==
    /\ ctcred = [c \in CTCreds |-> [rev |-> 0, live |-> FALSE, verified |-> 0, account |-> {}]]
    /\ ctevid = [c \in CTCreds |-> [r \in 1..CTRevisions |-> {}]]
    /\ ctclaim = [k \in CTKeys |-> NoClaim]
    /\ ctcall = [x \in CTCallers |-> NoCall]
    /\ ctsts = [k \in CTKeys |-> 0] /\ cttold = [k \in CTKeys |-> {}]
    /\ ctleft \in CTSettings

CTSpend(bound) == ctleft[bound] > 0 /\ ctleft' = [ctleft EXCEPT ![bound] = @ - 1]
Goes(x, pc) == ctcall' = [ctcall EXCEPT ![x].pc = pc]
Ends(x) == ctcall' = [ctcall EXCEPT ![x] = NoCall]
Told(k, answer) == cttold' = [cttold EXCEPT ![k] = @ \cup {answer}]

-----------------------------------------------------------------------------
(* CreateCredential: one live credential in the scope, under its lock.     *)
SaveCredential(c) ==
    /\ ctcred[c].rev = 0 /\ \A d \in CTCreds : ~ctcred[d].live
    /\ ctcred' = [ctcred EXCEPT ![c] = [rev |-> 1, live |-> TRUE, verified |-> 0, account |-> {}]]
    /\ UNCHANGED <<ctevid, ctclaim, ctcall, ctsts, cttold, ctleft>>

(* ReplaceCredential at the current revision drops what was verified.      *)
ReplaceCredential(c) ==
    /\ ctcred[c].live /\ ctcred[c].rev < CTRevisions
    /\ ctcred' = [ctcred EXCEPT ![c] = [rev |-> @.rev + 1, live |-> TRUE,
                                        verified |-> 0, account |-> {}]]
    /\ UNCHANGED <<ctevid, ctclaim, ctcall, ctsts, cttold, ctleft>>

DeleteCredential(c) ==
    /\ ctcred[c].live
    /\ ctcred' = [ctcred EXCEPT ![c].live = FALSE]
    /\ UNCHANGED <<ctevid, ctclaim, ctcall, ctsts, cttold, ctleft>>

-----------------------------------------------------------------------------
(* The end of BeginCredentialTest for a key that has a row: what the       *)
(* caller is told, or that it waits.                                       *)
Replays(x, k) ==
    CASE ctclaim[k].state = "in_progress" ->
            /\ ctcall' = [ctcall EXCEPT ![x] = [pc |-> "wait", key |-> k]] /\ UNCHANGED cttold
      [] ctclaim[k].state = "completed" -> Ends(x) /\ Told(k, <<"identity", ctclaim[k].response>>)
      [] OTHER -> Ends(x) /\ Told(k, <<ctclaim[k].state, {}>>)

Current(c, r) == ctcred[c].live /\ ctcred[c].rev = r

(* A key without a row is claimed when the revision it asks for is current.*)
ClaimedFresh(x, k) ==
    LET b == CTBinding[k]
    IN /\ ctclaim' = [ctclaim EXCEPT ![k] = [state |-> "in_progress", response |-> {}]]
       /\ \/ /\ ctcall' = [ctcall EXCEPT ![x] = [pc |-> "sts", key |-> k, cred |-> b.cred,
                                                 rev |-> b.rev, ident |-> {}]]
             /\ UNCHANGED ctleft
          \/ CTSpend("faults") /\ Ends(x) \* committed, answered with an error
       /\ UNCHANGED cttold

BeginCredentialTest(x, k) ==
    /\ IF ctclaim[k].state # "none" THEN Replays(x, k) /\ UNCHANGED <<ctclaim, ctleft>>
       ELSE IF Current(CTBinding[k].cred, CTBinding[k].rev) THEN ClaimedFresh(x, k)
       ELSE Ends(x) /\ UNCHANGED <<ctclaim, cttold, ctleft>>
    /\ UNCHANGED <<ctcred, ctevid, ctsts>>

(* The service first reads the credential, which has to be live.           *)
TestCredentialIdempotent(x, k) ==
    /\ ctcall[x].pc = "idle" /\ ctcred[CTBinding[k].cred].live
    /\ ctcall' = [ctcall EXCEPT ![x] = [pc |-> "begin", key |-> k]]
    /\ UNCHANGED <<ctRows, ctsts, cttold, ctleft>>

Begin(x) == ctcall[x].pc = "begin" /\ BeginCredentialTest(x, ctcall[x].key)

(* A waiter polls the row, or gives up.                                    *)
Poll(x) ==
    /\ ctcall[x].pc = "wait" /\ ctclaim[ctcall[x].key].state # "in_progress"
    /\ BeginCredentialTest(x, ctcall[x].key)

GiveUp(x) ==
    /\ ctcall[x].pc = "wait"
    /\ Ends(x) /\ Told(ctcall[x].key, <<"uncertain", {}>>)
    /\ UNCHANGED <<ctRows, ctsts, ctleft>>

(* GetCallerIdentity: an identity, a failure, or a failure of a call whose *)
(* context has ended.                                                      *)
runCredentialTestProvider(x) ==
    /\ ctcall[x].pc = "sts"
    /\ ctsts' = [ctsts EXCEPT ![ctcall[x].key] = @ + 1]
    /\ \/ \E i \in CTIdentities :
            ctcall' = [ctcall EXCEPT ![x] = [@ EXCEPT !.pc = "complete", !.ident = {i}]]
       \/ Goes(x, "failed")
       \/ Goes(x, "uncertain")
    /\ UNCHANGED <<ctRows, cttold, ctleft>>

(* The evidence of a revision is written once and has to agree.            *)
EvidenceAgrees(c, r, ident) == ctevid[c][r] \in {{}, ident}

(* A test that marks the credential whatever became of it.                 *)
VerifyAnyway(c, r, ident) == ctcred' = [ctcred EXCEPT ![c].verified = r, ![c].account = ident]

(* A replaced or deleted credential is left alone.                         *)
VerifyCurrent(c, r, ident) ==
    ctcred' = IF Current(c, r)
              THEN [ctcred EXCEPT ![c].verified = r, ![c].account = ident] ELSE ctcred

Recorded(c, r, ident) ==
    /\ ctevid' = [ctevid EXCEPT ![c][r] = ident] /\ VerifyCurrent(c, r, ident)

Completed(x) ==
    LET a == ctcall[x]
    IN /\ Recorded(a.cred, a.rev, a.ident)
       /\ ctclaim' = [ctclaim EXCEPT ![a.key] = [state |-> "completed", response |-> a.ident]]

(* CompleteCredentialTest.  Whatever fails, the claim is then marked       *)
(* uncertain, which a claim that is completed after all survives.          *)
CompleteCredentialTest(x) ==
    /\ ctcall[x].pc = "complete"
    /\ \/ /\ EvidenceAgrees(ctcall[x].cred, ctcall[x].rev, ctcall[x].ident)
          /\ ctclaim[ctcall[x].key].state = "in_progress"
          /\ Completed(x)
          /\ \/ Ends(x) /\ Told(ctcall[x].key, <<"identity", ctcall[x].ident>>) /\ UNCHANGED ctleft
             \/ CTSpend("faults") /\ Goes(x, "uncertain") /\ UNCHANGED cttold
       \/ /\ ~EvidenceAgrees(ctcall[x].cred, ctcall[x].rev, ctcall[x].ident)
          /\ Goes(x, "uncertain") /\ UNCHANGED <<ctRows, cttold, ctleft>>
       \/ CTSpend("faults") /\ Goes(x, "uncertain") /\ UNCHANGED <<ctRows, cttold>>
    /\ UNCHANGED ctsts

(* MarkCredentialTestUncertain and MarkCredentialTestFailed change a claim *)
(* in progress only; a mark that fails is reported as uncertain.           *)
Marked(k, state) ==
    ctclaim' = [ctclaim EXCEPT ![k].state = IF @ = "in_progress" THEN state ELSE @]

MarkCredentialTestUncertain(x) ==
    /\ ctcall[x].pc = "uncertain"
    /\ \/ Marked(ctcall[x].key, "uncertain") /\ UNCHANGED ctleft
       \/ CTSpend("faults") /\ UNCHANGED ctclaim
    /\ Ends(x) /\ Told(ctcall[x].key, <<"uncertain", {}>>)
    /\ UNCHANGED <<ctcred, ctevid, ctsts>>

MarkCredentialTestFailed(x) ==
    /\ ctcall[x].pc = "failed"
    /\ \/ /\ Marked(ctcall[x].key, "failed")
          /\ \/ Told(ctcall[x].key, <<"failed", {}>>) /\ UNCHANGED ctleft
             \/ Told(ctcall[x].key, <<"uncertain", {}>>) /\ CTSpend("faults")
       \/ Told(ctcall[x].key, <<"uncertain", {}>>) /\ CTSpend("faults") /\ UNCHANGED ctclaim
    /\ Ends(x)
    /\ UNCHANGED <<ctcred, ctevid, ctsts>>

-----------------------------------------------------------------------------
(* TestCredential, without a key: reads, calls, records.                   *)
TestCredential(x, c) ==
    /\ ctcall[x].pc = "idle" /\ ctcred[c].live /\ CTSpend("plain")
    /\ ctcall' = [ctcall EXCEPT ![x] = [pc |-> "plain", cred |-> c, rev |-> ctcred[c].rev]]
    /\ UNCHANGED <<ctRows, ctsts, cttold>>

RecordCredentialIdentity(x) ==
    /\ ctcall[x].pc = "plain"
    /\ LET a == ctcall[x]
       IN \/ \E i \in CTIdentities :
                /\ Current(a.cred, a.rev)
                /\ EvidenceAgrees(a.cred, a.rev, {i}) /\ Recorded(a.cred, a.rev, {i})
          \/ UNCHANGED <<ctcred, ctevid>>
    /\ Ends(x) /\ UNCHANGED <<ctclaim, ctsts, cttold, ctleft>>

(* The process stops; a claim in progress stays so.                        *)
Crash ==
    /\ CTSpend("crashes") /\ \E x \in CTCallers : ctcall[x].pc # "idle"
    /\ ctcall' = [x \in CTCallers |-> NoCall]
    /\ UNCHANGED <<ctRows, ctsts, cttold>>

CredentialNext ==
    \/ Crash
    \/ \E c \in CTCreds : SaveCredential(c) \/ ReplaceCredential(c) \/ DeleteCredential(c)
    \/ \E x \in CTCallers :
          \/ \E k \in CTKeys : TestCredentialIdempotent(x, k)
          \/ \E c \in CTCreds : TestCredential(x, c)
          \/ Begin(x) \/ Poll(x) \/ GiveUp(x)
          \/ runCredentialTestProvider(x) \/ CompleteCredentialTest(x)
          \/ MarkCredentialTestUncertain(x) \/ MarkCredentialTestFailed(x)
          \/ RecordCredentialIdentity(x)

CredentialSpec == CredentialInit /\ [][CredentialNext]_ctVars

-----------------------------------------------------------------------------
(* A key reaches the provider once, over callers, retries and restarts.    *)
ProviderOncePerKey == \A k \in CTKeys : ctsts[k] <= 1

(* What a credential says of itself was found out about the revision it    *)
(* has now, and is the evidence kept for that revision.                    *)
VerifiedIsCurrent ==
    \A c \in CTCreds : ctcred[c].verified # 0 =>
        /\ ctcred[c].verified = ctcred[c].rev
        /\ ctcred[c].account # {} /\ ctevid[c][ctcred[c].rev] = ctcred[c].account

(* The callers of a key never hear two answers, and what they hear is what *)
(* is stored: an identity that is the evidence of the revision, or a       *)
(* failure after which there is none.                                      *)
AnswersAgree ==
    \A k \in CTKeys :
        /\ \A s, t \in cttold[k] : s = t \/ s[1] = "uncertain" \/ t[1] = "uncertain"
        /\ ctclaim[k].state = "completed" =>
              ctclaim[k].response = ctevid[CTBinding[k].cred][CTBinding[k].rev]
        /\ \A s \in cttold[k] :
              /\ s[1] = "identity" => ctclaim[k] = [state |-> "completed", response |-> s[2]]
              /\ s[1] = "failed" => ctclaim[k].state = "failed"

(* A scope has one live credential, tests are made once for each key, and  *)
(* neither a late nor a lost answer changes what was found out.            *)
CredentialInv ==
    /\ Cardinality({c \in CTCreds : ctcred[c].live}) <= 1
    /\ ProviderOncePerKey /\ VerifiedIsCurrent /\ AnswersAgree
=============================================================================
