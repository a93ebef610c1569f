------------------------- MODULE MCOperatorReplicas --------------------------
(* Small instances of the diki-operator processes for TLC. *)
EXTENDS OperatorReplicas

CONSTANTS p1, p2, p3, s1

MCProcesses == {p1, p2, p3}
MCScans == {s1}

MCTexts == {"", "info", "json", "kube-system", "leases",
            "diki-operator-leader-election", "/tls"}

MCFaults == {"rejected"}

\* Nothing said but the certificate directory.
Sparse ==
  [log            |-> [level |-> "", format |-> ""],
   leaderElection |-> Nil,
   complianceScan |-> [syncPeriod |-> Nil,
                       dikiRunner |-> [namespace |-> "", labelsLegal |-> TRUE,
                                       podCompletionTimeout |-> Nil]],
   server         |-> [webhooks |-> [port |-> 0, serverCertDir |-> "/tls"],
                       healthProbes |-> Nil, metrics |-> Nil]]

\* A short lease, so that little time has to pass.
Timing(lease, renew, retry) ==
  [ZeroLeaderElection EXCEPT !.leaseDuration = lease, !.renewDeadline = renew,
                             !.retryPeriod = retry]

ShortLease == [Sparse EXCEPT !.leaderElection = Timing(4, 2, 1),
                             !.server.metrics = [port |-> 0]]

WithoutElection ==
  [Sparse EXCEPT !.leaderElection = [Timing(2, 2, 2) EXCEPT !.leaderElect = FALSE]]

NoCertificates == [Sparse EXCEPT !.server.webhooks.serverCertDir = ""]

\* Passes the validation, but client-go makes no elector of it.
RareRetries == [Sparse EXCEPT !.leaderElection = Timing(6, 2, 2)]

MCFiles == {Nil, Sparse, ShortLease, WithoutElection, NoCertificates, RareRetries}
=============================================================================
