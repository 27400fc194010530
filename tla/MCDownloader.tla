---------------------------- MODULE MCDownloader ----------------------------
EXTENDS Downloader

S(optional, priority, depth) ==
    [optional |-> optional, required |-> FALSE, priority |-> priority, conns |-> 1, depth |-> depth]

\* A primary server that pipelines two commands, and an optional fill server.
MCServerCfg == <<S(FALSE, 0, 2), S(TRUE, 1, 1)>>

O(tries, opt, top) == [maxArtTries |-> tries, maxArtOpt |-> opt, topOnly |-> top]
Lax == O(0, 0, FALSE)
Strict == O(1, 1, TRUE)
MCOptions == {Lax, Strict}

X(on, done, o, stat, nf, nc) ==
    [on |-> on, done |-> done, opts |-> o, stat |-> stat, faults |-> nf, calls |-> nc]

\* One article and two servers, with a call or with a fault; two articles that
\* share a pipelined connection, with a fault.
MCScenario ==
    {X({1, 2}, {2}, Lax, FALSE, 0, 1), X({1, 2}, {2}, Lax, TRUE, 1, 0),
     X({1, 2}, {2}, Strict, FALSE, 1, 0), X({1}, {}, Lax, FALSE, 1, 0)}

\* One server, and room for a pause that a low disk and a user both ask for.
MCOneServer == <<S(FALSE, 0, 1)>>
MCLowDisk == {X({1}, {}, Lax, FALSE, 0, 2)}
=============================================================================
