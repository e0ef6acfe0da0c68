----------------------------- MODULE RWLockSpec -----------------------------
(***************************************************************************)
(* What QReadWriteLock promises its callers, with no word, no private and  *)
(* no condition variable: readers share the lock, a writer is alone, no    *)
(* reader gets in while a writer queues, and a call that fails does so at  *)
(* a moment when it could not have had the lock.                           *)
(***************************************************************************)
CONSTANTS Threads

VARIABLES readers,  \* the threads that hold the lock for reading
          writers,  \* ... for writing
          reading,  \* the threads inside lockForRead(), tryLockForRead()
          writing,  \* ... inside lockForWrite(), tryLockForWrite()
          patient,  \* those inside a call that may take forever
          queued    \* those inside a call for writing that readers respect

svars == <<readers, writers, reading, writing, patient, queued>>

SpecInit == /\ readers = {} /\ writers = {}
            /\ reading = {} /\ writing = {}
            /\ patient = {} /\ queued = {}

Outside(t) == t \notin readers \cup writers \cup reading \cup writing

Begin(t) == /\ Outside(t)
            /\ \/ reading' = reading \cup {t} /\ UNCHANGED writing
               \/ writing' = writing \cup {t} /\ UNCHANGED reading
            /\ patient' \in {patient, patient \cup {t}}
            /\ UNCHANGED <<readers, writers, queued>>

FreeToRead  == writers = {} /\ queued = {}
FreeToWrite == readers = {} /\ writers = {}

LockForRead(t) == /\ t \in reading /\ FreeToRead
                  /\ readers' = readers \cup {t}
                  /\ reading' = reading \ {t}
                  /\ patient' = patient \ {t}
                  /\ UNCHANGED <<writers, writing, queued>>

LockForWrite(t) == /\ t \in writing /\ FreeToWrite
                   /\ writers' = {t}
                   /\ writing' = writing \ {t}
                   /\ patient' = patient \ {t}
                   /\ queued' = queued \ {t}
                   /\ UNCHANGED <<readers, reading>>

(* A writer queues for a lock that it cannot have at that moment.          *)
Queue(t) == /\ t \in writing /\ ~FreeToWrite
            /\ queued' = queued \cup {t}
            /\ UNCHANGED <<readers, writers, reading, writing, patient>>

(* The call returns false: the lock is not free for it.                    *)
GiveUp(t) == /\ \/ t \in reading /\ ~FreeToRead
                \/ t \in writing /\ ~FreeToWrite
             /\ t \notin patient
             /\ reading' = reading \ {t}
             /\ writing' = writing \ {t}
             /\ queued' = queued \ {t}
             /\ UNCHANGED <<readers, writers, patient>>

Unlock(t) == /\ t \in readers \cup writers
             /\ readers' = readers \ {t}
             /\ writers' = writers \ {t}
             /\ UNCHANGED <<reading, writing, patient, queued>>

SpecNext == \E t \in Threads : \/ Begin(t) \/ LockForRead(t) \/ LockForWrite(t)
                               \/ Queue(t) \/ GiveUp(t) \/ Unlock(t)

AbstractSpec == SpecInit /\ [][SpecNext]_svars
=============================================================================
