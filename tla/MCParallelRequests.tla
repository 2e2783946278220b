------------------------- MODULE MCParallelRequests -------------------------
EXTENDS ParallelRequests

CONSTANTS chat, answer, vector

MCRequest == {chat, answer, vector}
MCEmbedding == {vector}

Quiet == [queues |-> {chat, answer}, stops |-> {answer}, subscribes |-> FALSE,
          unsubscribes |-> FALSE, releases |-> FALSE, disables |-> FALSE, configures |-> FALSE,
          failures |-> FALSE]

\* What the applications of the instances do.
Stopping    == [Quiet EXCEPT !.stops = {chat, answer}, !.failures = TRUE]
Mixed       == [Quiet EXCEPT !.queues = {answer, vector}, !.failures = TRUE, !.configures = TRUE]
Watching    == [Quiet EXCEPT !.queues = {answer, vector}, !.stops = {}, !.subscribes = TRUE]
Failing     == [Quiet EXCEPT !.queues = {answer}, !.subscribes = TRUE, !.failures = TRUE]
Releasing   == [Quiet EXCEPT !.queues = {answer, vector}, !.releases = TRUE]
Configuring == [Quiet EXCEPT !.configures = TRUE]
Disabling   == [Quiet EXCEPT !.disables = TRUE]
Unwatching  == [Failing EXCEPT !.unsubscribes = TRUE, !.disables = TRUE]

MCApp == {Stopping, Mixed, Watching, Failing, Releasing, Configuring, Disabling, Unwatching}
=============================================================================
