------------------------ MODULE MCOlsrWatchdogWindow ------------------------
(***************************************************************************)
(* OlsrWatchdog with a history of the RTS frames overheard while a packet  *)
(* was pending, for what the comments say of the observation window.       *)
(***************************************************************************)
EXTENDS OlsrWatchdog

CONSTANTS hop, far

OneHop == {hop}
OneDest == {far}

VARIABLES
    contended,   \* packets of hop pending while it sent an RTS
    cleared      \* some CTS addressed to it was overheard

NoteContention ==
    LET rts == {n \in NextHops : OnRtsReceived(n)}
        cts == {n \in NextHops : OnCtsReceived(n)}
    IN  /\ contended' = IF m_enabled' # m_enabled THEN {}
                        ELSE contended \cup (IF rts = {} THEN {}
                                             ELSE {p.uid : p \in m_pendingByNeighbor[hop]})
        /\ cleared' = (m_enabled' = m_enabled /\ (cleared \/ cts # {}))

HistoryInit == Init /\ contended = {} /\ cleared = FALSE
HistoryNext == Next /\ NoteContention
HistorySpec == HistoryInit /\ [][HistoryNext]_<<vars, contended, cleared>>

\* CollisionSuspectedFor sums two rounds so that the test spans the whole
\* lifetime of a pending packet: a neighbour that sent an RTS while the packet
\* was pending, and never got a CTS, gets no evidence for it.
WindowSpansLifetime ==
    [][\A p \in m_pendingByNeighbor[hop] :
          m_pendingByNeighbor[hop] = {p} /\ p.uid \in contended /\ ~cleared
             /\ RtsCtsDiscrepancyThresh <= 1
            => notForwardedEvidence'[hop] <= notForwardedEvidence[hop]]_vars
=============================================================================
