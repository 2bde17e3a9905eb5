------------------------------- MODULE MCSession -------------------------------
EXTENDS Session

With(k, r, fs) == [kind |-> [main |-> "main", other |-> k], role |-> r, faults |-> fs]

MCScenarios ==
  {With("send", "primary", {"network", "crash"}), With("keeper", "primary", {"network"}),
   With("keeper", "primary", {"expiry"}), With("send", "primary", {"disk"}),
   With("send", "primary", {"reject"}), With("keeper", "secondary", {"scope"}),
   With("keeper", "primary", {"scope"}), With("stream", "secondary", {"device", "crash"}),
   With("send", "primary", {"device", "store", "crash"}), With("stream", "primary", {"restore", "store", "crash"}),
   With("keeper", "secondary", {"restore", "store", "crash"})}

OnlyRestore == {With("send", "primary", {"restore", "store", "crash"})}

=============================================================================
