-------------------------------- MODULE Efd --------------------------------
(***************************************************************************)
(* The event descriptor of utils/efd.c over its three POSIX forms: an      *)
(* eventfd, whose counter one read empties, and a pipe or a socket pair,   *)
(* which hold one byte per signal and are read in blocks.  The worker      *)
(* threads signal, one application thread waits and then unsignals, and    *)
(* the owner may stop or terminate the object at any time.                 *)
(***************************************************************************)
EXTENDS Integers, FiniteSets

CONSTANTS Signallers,       \* threads that signal
          BlockSize,        \* sizeof (buf) in nn_efd_unsignal
          MaxPending        \* bound: signals not yet read

ASSUME EfdAssumption == BlockSize \in Nat \ {0} /\ MaxPending \in Nat

VARIABLES kind,             \* which of the three was built in
          rfd, wfd,         \* the object's two descriptors are open (eventfd: one)
          pending,          \* signals in the kernel
          signalling,       \* signallers that have read the descriptor
          wait,             \* the waiter: idle, in poll, ready, in unsignal
          owed,             \* history: signals sent before the unsignal began
          aborted,          \* an assertion failed
          overlap           \* history: stop or term came while a signal was under way

efdVars == <<kind, rfd, wfd, pending, signalling, wait, owed, aborted, overlap>>

EfdTypeOK ==
    /\ kind \in {"eventfd", "pipe", "socketpair"}
    /\ rfd \in BOOLEAN /\ wfd \in BOOLEAN /\ pending \in 0..MaxPending
    /\ signalling \subseteq Signallers
    /\ wait \in {"idle", "poll", "ready", "unsignal"}
    /\ owed \in 0..MaxPending /\ aborted \in BOOLEAN /\ overlap \in BOOLEAN

\* nn_efd_init; with no descriptor left an eventfd object stays unusable, which
\* fsock_sock_init does not look at.  (The other two then leave their fields
\* unset: such an object is left out.)
EfdInit ==
    /\ kind \in {"eventfd", "pipe", "socketpair"}
    /\ rfd \in BOOLEAN /\ wfd = rfd /\ (~rfd => kind = "eventfd")
    /\ pending = 0 /\ signalling = {} /\ wait = "idle" /\ owed = 0
    /\ aborted = FALSE /\ overlap = FALSE

-----------------------------------------------------------------------------
\* nn_efd_signal: a closed object is left alone...
SignalBegin(s) ==
    /\ ~aborted /\ s \notin signalling /\ wfd
    /\ signalling' = signalling \cup {s}
    /\ UNCHANGED <<kind, rfd, wfd, pending, wait, owed, aborted, overlap>>

\* ... and one that is closed before the write fails the assertion.
SignalWrite(s) ==
    /\ ~aborted /\ s \in signalling
    /\ signalling' = signalling \ {s}
    /\ IF wfd /\ rfd
       THEN pending < MaxPending /\ pending' = pending + 1 /\ UNCHANGED aborted
       ELSE aborted' = TRUE /\ UNCHANGED pending
    /\ UNCHANGED <<kind, rfd, wfd, wait, owed, overlap>>

\* nn_efd_wait: a closed object returns -EBADF and is not polled.
WaitBegin ==
    /\ ~aborted /\ wait = "idle" /\ rfd
    /\ wait' = "poll"
    /\ UNCHANGED <<kind, rfd, wfd, pending, signalling, owed, aborted, overlap>>

\* poll sees a signal, or the hang-up of a closed write side.
Readable == pending > 0 \/ (kind # "eventfd" /\ ~wfd)

WaitReady ==
    /\ ~aborted /\ wait = "poll" /\ Readable
    /\ wait' = "ready"
    /\ UNCHANGED <<kind, rfd, wfd, pending, signalling, owed, aborted, overlap>>

\* -ETIMEDOUT, or -EINTR from a signal handler.
WaitFails ==
    /\ ~aborted /\ wait = "poll"
    /\ wait' = "idle"
    /\ UNCHANGED <<kind, rfd, wfd, pending, signalling, owed, aborted, overlap>>

\* What one read takes.
Taken(k, n) == IF k = "eventfd" \/ n < BlockSize THEN n ELSE BlockSize

\* Whether the loop of nn_efd_unsignal goes round again.
ReadsOnce(k, n) == FALSE

ReadsAgain(k, n) == k # "eventfd" /\ n >= BlockSize

\* One turn of nn_efd_unsignal.  An eventfd without a signal fails the
\* assertion; a pipe may well be empty.
Unsignal ==
    /\ ~aborted /\ wait \in {"ready", "unsignal"}
    /\ IF ~rfd THEN wait' = "idle" /\ owed' = 0 /\ UNCHANGED <<pending, aborted>>
       ELSE LET before == IF wait = "ready" THEN pending ELSE owed
                n == Taken(kind, pending)
            IN /\ aborted' = (kind = "eventfd" /\ pending = 0)
               /\ pending' = pending - n
               /\ owed' = IF before > n THEN before - n ELSE 0
               /\ wait' = IF ReadsAgain(kind, pending) THEN "unsignal" ELSE "idle"
    /\ UNCHANGED <<kind, rfd, wfd, signalling, overlap>>

\* nn_efd_stop: an eventfd is signalled, the others lose their write side,
\* which wakes the pollers.
Stop ==
    /\ ~aborted /\ wfd
    /\ IF kind = "eventfd"
       THEN pending < MaxPending /\ pending' = pending + 1 /\ UNCHANGED <<wfd, overlap>>
       ELSE /\ wfd' = FALSE
            /\ overlap' = (overlap \/ signalling # {})
            /\ UNCHANGED pending
    /\ UNCHANGED <<kind, rfd, signalling, wait, owed, aborted>>

\* nn_efd_term: both descriptors, each field reset before its close.
Terminate ==
    /\ ~aborted /\ rfd
    /\ rfd' = FALSE /\ wfd' = FALSE /\ pending' = 0
    /\ overlap' = (overlap \/ signalling # {})
    /\ UNCHANGED <<kind, signalling, wait, owed, aborted>>

EfdNext == \/ WaitBegin \/ WaitReady \/ WaitFails \/ Unsignal \/ Stop \/ Terminate
           \/ \E s \in Signallers : SignalBegin(s) \/ SignalWrite(s)

EfdSpec == EfdInit /\ [][EfdNext]_efdVars

-----------------------------------------------------------------------------
(***************************************************************************)
(* Properties.                                                             *)
(***************************************************************************)

\* The assertions of signal and unsignal hold with one waiter, which
\* unsignals only what it has seen signalled, unless the owner closes the
\* object while a signal is between its two looks at the descriptor; and an
\* unsignal that returns has taken every signal sent before it began, on the
\* boundary of the block size too.
EfdSound == /\ aborted => overlap
            /\ wait = "idle" => owed = 0
=============================================================================
