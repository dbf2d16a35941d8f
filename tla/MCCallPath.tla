----------------------------- MODULE MCCallPath -----------------------------
EXTENDS CallPath

Mix(p, k) == [placement |-> p, calls |-> k]

MCMixes ==
    {Mix("hash", <<"read">>), Mix("hash", <<"client">>), Mix("hash", <<"tcp", "tcp">>),
     Mix("random", <<"tell">>), Mix("prefer_local", <<"ask">>)}
=============================================================================
