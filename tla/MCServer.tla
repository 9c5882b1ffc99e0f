------------------------------ MODULE MCServer ------------------------------
\* Instances of the server for TLC: the settings of the Server*.cfg files.
EXTENDS Server

OneThread == [threads_num |-> 1, mthread_server |-> FALSE, recv_looping_num |-> 1, tls |-> FALSE,
              select_timeout |-> FALSE, sameTid |-> FALSE]
OneThreadTls == [OneThread EXCEPT !.tls = TRUE]
TwoThreads == [OneThread EXCEPT !.threads_num = 2, !.mthread_server = TRUE,
                                !.select_timeout = TRUE]
TwoThreadsTls == [TwoThreads EXCEPT !.tls = TRUE]

\* As on BSD, where a thread finds itself in thread_pid_array.
TwoThreadsSameTid == [TwoThreads EXCEPT !.sameTid = TRUE]

ServesSettings == {OneThread, OneThreadTls, TwoThreadsTls, TwoThreadsSameTid}
ReuseSettings == {TwoThreads}

\* Three connections of a server of one thread, two of a server of two threads.
ServesConns == <<3, 2>>
ReuseConns == <<3, 3>>
=============================================================================
