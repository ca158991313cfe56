------------------------ MODULE ServiceRegistryProofs ------------------------
(***************************************************************************)
(* Proofs about ServiceRegistry: far ends, maps and queues agree, nobody   *)
(* is forgotten and nobody is overtaken.                                   *)
(***************************************************************************)
EXTENDS ServiceRegistry, Induction, FiniteSetTheorems

-----------------------------------------------------------------------------
(* One change of the registry at a time: w is what r becomes.              *)

\* The far ends of SAP s and of SPP p at i become e and f.
NewEnds(r, w, s, p, i, e, f) ==
  /\ w.sapEnd[s] = e /\ \A u \in Sap \ {s} : w.sapEnd[u] = r.sapEnd[u]
  /\ w.sppEnds[p][i] = f
  /\ \A q \in Spp : \A j \in 1 .. NumFarEnd[q] :
       <<q, j>> # <<p, i>> => w.sppEnds[q][j] = r.sppEnds[q][j]

EndAt(p, i) == [port |-> p, index |-> i]

\* The queue q and s behind it.
Behind(q, s) == Append(q, s)

\* The far end of a SAP is an SPP's, or none.
LEMMA EndIs ==
  ASSUME NEW r, Shape(r), NEW s \in Sap
  PROVE  /\ r.sapEnd[s] = NoEnd <=> r.sapEnd[s].port = NONE
         /\ r.sapEnd[s] # NoEnd =>
              \E p \in Spp : \E i \in 1 .. NumFarEnd[p] : r.sapEnd[s] = [port |-> p, index |-> i]
<1>1. \A p \in Spp : p # NONE
  BY PortAssumption DEF Port
<1>2. CASE r.sapEnd[s] = NoEnd
  BY <1>2 DEF NoEnd
<1>3. CASE r.sapEnd[s] # NoEnd
  <2>1. PICK p \in Spp : \E i \in 1 .. NumFarEnd[p] : r.sapEnd[s] = [port |-> p, index |-> i]
    BY <1>3 DEF Shape
  <2> QED BY <1>1, <1>3, <2>1
<1> QED BY <1>2, <1>3

\* A SAP leaves its queue.
LEMMA TakenOut ==
  ASSUME NEW r, NEW T \in SUBSET Sap, NEW m, Sound(r, T, m), NEW n \in Service, NEW s \in Sap,
         NEW U, U = T \cup {s},
         s \in Range(r.waiting[n]),
         NEW w, Shape(w), w.name = r.name, w.provider = r.provider, w.sapEnd = r.sapEnd,
         w.sppEnds = r.sppEnds, w.fatal = r.fatal,
         \A o \in Service \ {n} : w.waiting[o] = r.waiting[o],
         Range(w.waiting[n]) = Range(r.waiting[n]) \ {s}, IsInjective(w.waiting[n])
  PROVE  Sound(w, U, m)
<1>1. Mirror(w) /\ Provided(w) /\ ~ w.fatal
  BY DEF Sound, Mirror, Provided
<1>2. r.name[s] = n /\ r.sapEnd[s] = NoEnd
  BY DEF Sound, WaitsByName
<1>3. BoundByName(w, U)
  BY <1>2 DEF Sound, BoundByName
<1>4. WaitsByName(w, U)
  BY <1>2 DEF Sound, WaitsByName
<1>5. WaitsOnce(w)
  BY DEF Sound, WaitsOnce
<1>6. ASSUME AllFit PROVE Everyone(w, U) /\ NoneIdle(w, m)
  <2>1. Everyone(w, U)
    BY <1>6 DEF Sound, Everyone
  <2>2. r.waiting[n] # <<>>
    BY DEF Range
  <2>3. NoneIdle(w, m)
    BY <1>6, <2>2 DEF Sound, NoneIdle, FreeEnds
  <2> QED BY <2>1, <2>3
<1> QED BY <1>1, <1>3, <1>4, <1>5, <1>6 DEF Sound

\* A SAP is bound to a free far end of the SPP of its service.
LEMMA BoundThere ==
  ASSUME NEW r, NEW T \in SUBSET Sap, NEW s \in Sap, s \notin T, NEW U, U = T \cup {s},
         NEW m, Sound(r, U, m),
         NEW n \in Service, NEW p \in Spp, r.provider[n] = p,
         NEW i \in 1 .. NumFarEnd[p], r.sppEnds[p][i] = NONE,
         NEW w, Shape(w), w.provider = r.provider, w.waiting = r.waiting, w.fatal = r.fatal,
         w.name[s] = n, \A q \in Port \ {s} : w.name[q] = r.name[q],
         NewEnds(r, w, s, p, i, EndAt(p, i), s)
  PROVE  Sound(w, T, m)
<1> /\ w.sapEnd[s] = [port |-> p, index |-> i]
    /\ \A u \in Sap \ {s} : w.sapEnd[u] = r.sapEnd[u]
    /\ w.sppEnds[p][i] = s
    /\ \A q \in Spp : \A j \in 1 .. NumFarEnd[q] :
         <<q, j>> # <<p, i>> => w.sppEnds[q][j] = r.sppEnds[q][j]
  BY DEF NewEnds, EndAt
<1>1. r.sapEnd[s] = NoEnd
  BY DEF Sound, BoundByName
<1>2. s \in Port /\ s \notin Spp /\ s # NONE /\ p # NONE
  BY PortAssumption DEF Port
<1>3. \A u \in Sap : u \in Port
  BY DEF Port
<1>4. \A q \in Spp : \A j \in 1 .. NumFarEnd[q] : r.sapEnd[s] # [port |-> q, index |-> j]
  BY <1>1, PortAssumption DEF NoEnd, Port
<1>5. Mirror(w)
  <2> SUFFICES ASSUME NEW u \in Sap, NEW q \in Spp, NEW j \in 1 .. NumFarEnd[q]
               PROVE  (w.sapEnd[u] = [port |-> q, index |-> j]) <=> (w.sppEnds[q][j] = u)
    BY DEF Mirror
  <2>1. (r.sapEnd[u] = [port |-> q, index |-> j]) <=> (r.sppEnds[q][j] = u)
    BY DEF Sound, Mirror
  <2>2. CASE <<q, j>> = <<p, i>>
    <3>1. u # s => r.sapEnd[u] # [port |-> q, index |-> j]
      <4>1. u # NONE
        BY PortAssumption DEF Port
      <4> QED BY <2>1, <2>2, <4>1
    <3> QED BY <2>2, <3>1
  <2>3. CASE <<q, j>> # <<p, i>>
    <3>1. w.sppEnds[q][j] = r.sppEnds[q][j]
      BY <2>3
    <3>2. u = s => w.sapEnd[u] # [port |-> q, index |-> j]
      BY <2>3
    <3>3. u = s => r.sppEnds[q][j] # u
      BY <1>4, <2>1
    <3> QED BY <2>1, <3>1, <3>2, <3>3
  <2> QED BY <2>2, <2>3
<1>6. Provided(w)
  <2>1. \A q \in Spp : w.name[q] = r.name[q]
    BY <1>2 DEF Port
  <2> QED BY <2>1 DEF Sound, Provided
<1>7. BoundByName(w, T)
  BY <1>3 DEF Sound, BoundByName
<1>8. WaitsByName(w, T)
  <2> SUFFICES ASSUME NEW o \in Service, NEW u \in Range(w.waiting[o])
               PROVE  u \notin T /\ w.name[u] = o /\ w.sapEnd[u] = NoEnd
    BY DEF WaitsByName
  <2>1. u \notin T \cup {s} /\ r.name[u] = o /\ r.sapEnd[u] = NoEnd
    BY DEF Sound, WaitsByName
  <2>2. u \in Sap
    BY DEF Sound, Shape, Range
  <2> QED BY <1>3, <2>1, <2>2
<1>9. WaitsOnce(w)
  BY DEF Sound, WaitsOnce
<1>10. ASSUME AllFit PROVE Everyone(w, T) /\ NoneIdle(w, m)
  <2>1. Everyone(w, T)
    <3>1. w.sapEnd[s] # NoEnd
      BY <1>2 DEF NoEnd
    <3> QED BY <1>3, <1>10, <3>1 DEF Sound, Everyone
  <2>2. \A q \in Spp : FreeEnds(w, q) \subseteq FreeEnds(r, q)
    <3> SUFFICES ASSUME NEW q \in Spp, NEW j \in FreeEnds(w, q)
                 PROVE  j \in FreeEnds(r, q)
      OBVIOUS
    <3>1. j \in 1 .. NumFarEnd[q] /\ w.sppEnds[q][j] = NONE
      BY DEF FreeEnds, Shape
    <3>2. <<q, j>> # <<p, i>>
      BY <1>2, <3>1
    <3> QED BY <3>1, <3>2 DEF FreeEnds, Sound, Shape
  <2>3. NoneIdle(w, m)
    <3> SUFFICES ASSUME NEW o \in Service \ {m}, w.provider[o] # NONE,
                        FreeEnds(w, w.provider[o]) # {}
                 PROVE  w.waiting[o] = <<>>
      BY DEF NoneIdle
    <3>1. r.provider[o] \in Spp
      BY DEF Sound, Shape
    <3> QED BY <1>10, <2>2, <3>1 DEF Sound, NoneIdle
  <2> QED BY <2>1, <2>3
<1> QED BY <1>5, <1>6, <1>7, <1>8, <1>9, <1>10 DEF Sound

\* A SAP loses its far end; now one is free for those that wait.
LEMMA Unbound ==
  ASSUME NEW r, NEW T \in SUBSET Sap, NEW m, Sound(r, T, m), NEW s \in Sap,
         NEW U, U = T \cup {s}, NEW n, n = r.name[s],
         NEW p \in Spp, NEW i \in 1 .. NumFarEnd[p], r.sapEnd[s] = EndAt(p, i),
         m \in {NONE, r.name[s]},
         NEW w, Shape(w), w.name = r.name, w.provider = r.provider, w.waiting = r.waiting,
         w.fatal = r.fatal,
         NewEnds(r, w, s, p, i, NoEnd, NONE)
  PROVE  Sound(w, U, n)
<1> /\ w.sapEnd[s] = NoEnd /\ \A u \in Sap \ {s} : w.sapEnd[u] = r.sapEnd[u]
    /\ w.sppEnds[p][i] = NONE
    /\ \A q \in Spp : \A j \in 1 .. NumFarEnd[q] :
         <<q, j>> # <<p, i>> => w.sppEnds[q][j] = r.sppEnds[q][j]
  BY DEF NewEnds
<1> r.sapEnd[s] = [port |-> p, index |-> i]
  BY DEF EndAt
<1>1. s # NONE /\ p # NONE
  BY PortAssumption DEF Port
<1>2. r.sapEnd[s] # NoEnd
  BY <1>1 DEF NoEnd
<1>3. s \notin T /\ r.name[s] \in Service /\ r.provider[r.name[s]] = p
  BY <1>2 DEF Sound, BoundByName
<1>4. Mirror(w)
  <2> SUFFICES ASSUME NEW u \in Sap, NEW q \in Spp, NEW j \in 1 .. NumFarEnd[q]
               PROVE  (w.sapEnd[u] = [port |-> q, index |-> j]) <=> (w.sppEnds[q][j] = u)
    BY DEF Mirror
  <2>1. (r.sapEnd[u] = [port |-> q, index |-> j]) <=> (r.sppEnds[q][j] = u)
    BY DEF Sound, Mirror
  <2>2. u # NONE /\ q # NONE
    BY PortAssumption DEF Port
  <2>3. CASE <<q, j>> = <<p, i>>
    <3>1. r.sppEnds[q][j] = s
      BY <2>3 DEF Sound, Mirror
    <3> QED BY <2>1, <2>2, <2>3, <3>1 DEF NoEnd
  <2>4. CASE <<q, j>> # <<p, i>>
    BY <2>1, <2>2, <2>4 DEF NoEnd
  <2> QED BY <2>3, <2>4
<1>5. Provided(w)
  BY DEF Sound, Provided
<1>6. BoundByName(w, U)
  BY DEF Sound, BoundByName
<1>7. WaitsByName(w, U)
  <2> SUFFICES ASSUME NEW o \in Service, NEW u \in Range(w.waiting[o])
               PROVE  u \notin T \cup {s} /\ w.name[u] = o /\ w.sapEnd[u] = NoEnd
    BY DEF WaitsByName
  <2>1. u \notin T /\ r.name[u] = o /\ r.sapEnd[u] = NoEnd
    BY DEF Sound, WaitsByName
  <2>2. u \in Sap
    BY DEF Sound, Shape, Range
  <2> QED BY <1>2, <2>1, <2>2
<1>8. WaitsOnce(w)
  BY DEF Sound, WaitsOnce
<1>9. ASSUME AllFit PROVE Everyone(w, U) /\ NoneIdle(w, n)
  <2>1. Everyone(w, U)
    BY <1>9 DEF Sound, Everyone
  <2>2. ASSUME NEW o \in Service \ {r.name[s]}, w.provider[o] # NONE,
               FreeEnds(w, w.provider[o]) # {}
        PROVE  w.waiting[o] = <<>>
    <3>1. w.provider[o] \in Spp
      BY <2>2 DEF Shape
    <3>2. w.provider[o] # p
      BY <1>3, <3>1 DEF Sound, Provided
    <3>3. FreeEnds(w, w.provider[o]) \subseteq FreeEnds(r, r.provider[o])
      <4> DEFINE q == w.provider[o]
      <4>1. q \in Spp /\ q # p /\ r.provider[o] = q
        BY <3>1, <3>2
      <4>2. DOMAIN w.sppEnds[q] = 1 .. NumFarEnd[q] /\ DOMAIN r.sppEnds[q] = 1 .. NumFarEnd[q]
        BY <4>1 DEF Sound, Shape
      <4> HIDE DEF q
      <4>3. \A j \in 1 .. NumFarEnd[q] : w.sppEnds[q][j] = r.sppEnds[q][j]
        BY <4>1
      <4> QED BY <4>1, <4>2, <4>3 DEF FreeEnds, q
    <3>4. o \in Service \ {m}
      <4>1. NONE \notin Service
        BY PortAssumption
      <4> QED BY <4>1
    <3> QED BY <1>9, <2>2, <3>3, <3>4 DEF Sound, NoneIdle
  <2> QED BY <2>1, <2>2 DEF NoneIdle
<1> QED BY <1>4, <1>5, <1>6, <1>7, <1>8, <1>9 DEF Sound

\* A SAP queues up.
LEMMA QueuedUp ==
  ASSUME NEW r, NEW T \in SUBSET Sap, NEW s \in Sap, s \notin T, NEW U, U = T \cup {s},
         NEW m, Sound(r, U, m),
         NEW n \in Service,
         n = m \/ r.provider[n] = NONE \/ FreeEnds(r, r.provider[n]) = {} \/ ~ AllFit,
         NEW w, Shape(w), w.provider = r.provider, w.sapEnd = r.sapEnd, w.sppEnds = r.sppEnds,
         w.fatal = r.fatal, w.name[s] = n, \A q \in Port \ {s} : w.name[q] = r.name[q],
         \A o \in Service \ {n} : w.waiting[o] = r.waiting[o],
         w.waiting[n] = Behind(r.waiting[n], s)
  PROVE  Sound(w, T, m)
<1>1. \A u \in Sap : u \in Port
  BY DEF Port
<1>2. r.sapEnd[s] = NoEnd
  BY DEF Sound, BoundByName
<1>3. r.waiting[n] \in Seq(Sap)
  BY DEF Sound, Shape
<1>4. s \notin Range(r.waiting[n])
  BY DEF Sound, WaitsByName
<1>5. Range(w.waiting[n]) = Range(r.waiting[n]) \cup {s} /\ IsInjective(w.waiting[n])
  <2>1. IsInjective(r.waiting[n])
    BY DEF Sound, WaitsOnce
  <2> DEFINE q == r.waiting[n]
  <2>2. w.waiting[n] = Append(q, s) /\ q \in Seq(Sap)
    BY <1>3 DEF Behind
  <2>3. DOMAIN q = 1 .. Len(q) /\ Len(q) \in Nat
    BY <1>3
  <2>4. DOMAIN w.waiting[n] = 1 .. Len(q) + 1 /\ w.waiting[n][Len(q) + 1] = s
        /\ \A i \in 1 .. Len(q) : w.waiting[n][i] = q[i]
    BY <2>2, AppendProperties
  <2>5. s \notin Range(q) /\ IsInjective(q)
    BY <1>4, <2>1
  <2> HIDE DEF q
  <2>6. Range(w.waiting[n]) = Range(q) \cup {s}
    <3>1. \A i \in 1 .. Len(q) + 1 : i \in 1 .. Len(q) \/ i = Len(q) + 1
      BY <2>3
    <3>2. \A i \in 1 .. Len(q) : i \in 1 .. Len(q) + 1
      BY <2>3
    <3>3. Len(q) + 1 \in 1 .. Len(q) + 1
      BY <2>3
    <3> QED BY <2>3, <2>4, <3>1, <3>2, <3>3 DEF Range
  <2>7. IsInjective(w.waiting[n])
    <3>1. \A i \in 1 .. Len(q) + 1 : i \in 1 .. Len(q) \/ i = Len(q) + 1
      BY <2>3
    <3>2. \A i \in 1 .. Len(q) : q[i] # s
      BY <2>3, <2>5 DEF Range
    <3> QED BY <2>3, <2>4, <2>5, <3>1, <3>2 DEF IsInjective
  <2> QED BY <2>6, <2>7 DEF q
<1>6. Mirror(w) /\ ~ w.fatal
  BY DEF Sound, Mirror
<1>7. Provided(w)
  <2>1. \A q \in Spp : q \in Port \ {s}
    BY PortAssumption DEF Port
  <2> QED BY <2>1 DEF Sound, Provided
<1>8. BoundByName(w, T)
  BY <1>1, <1>2 DEF Sound, BoundByName
<1>9. WaitsByName(w, T)
  <2> SUFFICES ASSUME NEW o \in Service, NEW u \in Range(w.waiting[o])
               PROVE  u \notin T /\ w.name[u] = o /\ w.sapEnd[u] = NoEnd
    BY DEF WaitsByName
  <2>1. CASE o = n /\ u = s
    BY <1>2, <2>1
  <2>2. CASE ~ (o = n /\ u = s)
    <3>1. u \in Range(r.waiting[o])
      BY <1>5, <2>2
    <3>2. u \notin T \cup {s} /\ r.name[u] = o /\ r.sapEnd[u] = NoEnd
      BY <3>1 DEF Sound, WaitsByName
    <3>3. u \in Sap
      BY <3>1 DEF Sound, Shape, Range
    <3> QED BY <1>1, <3>2, <3>3
  <2> QED BY <2>1, <2>2
<1>10. WaitsOnce(w)
  BY <1>5 DEF Sound, WaitsOnce
<1>11. ASSUME AllFit PROVE Everyone(w, T) /\ NoneIdle(w, m)
  <2>1. Everyone(w, T)
    BY <1>1, <1>5, <1>11 DEF Sound, Everyone
  <2>2. NoneIdle(w, m)
    BY <1>11 DEF Sound, NoneIdle, FreeEnds
  <2> QED BY <2>1, <2>2
<1> QED BY <1>6, <1>7, <1>8, <1>9, <1>10, <1>11 DEF Sound

\* A SAP that is in no queue and on no far end loses its name.
LEMMA Forgotten ==
  ASSUME NEW r, NEW T \in SUBSET Sap, NEW s \in Sap, NEW U, U = T \cup {s},
         NEW m, Sound(r, U, m),
         NEW w, Shape(w), w.provider = r.provider, w.sapEnd = r.sapEnd, w.sppEnds = r.sppEnds,
         w.waiting = r.waiting, w.fatal = r.fatal,
         w.name[s] = NONE, \A q \in Port \ {s} : w.name[q] = r.name[q]
  PROVE  Sound(w, T, m)
<1>1. \A u \in Sap : u \in Port
  BY DEF Port
<1>2. Mirror(w) /\ ~ w.fatal /\ WaitsOnce(w)
  BY DEF Sound, Mirror, WaitsOnce
<1>3. Provided(w)
  <2>1. \A q \in Spp : q \in Port \ {s}
    BY PortAssumption DEF Port
  <2> QED BY <2>1 DEF Sound, Provided
<1>4. BoundByName(w, T)
  BY <1>1 DEF Sound, BoundByName
<1>5. WaitsByName(w, T)
  <2> SUFFICES ASSUME NEW o \in Service, NEW u \in Range(w.waiting[o])
               PROVE  u \notin T /\ w.name[u] = o /\ w.sapEnd[u] = NoEnd
    BY DEF WaitsByName
  <2>1. u \notin T \cup {s} /\ r.name[u] = o /\ r.sapEnd[u] = NoEnd
    BY DEF Sound, WaitsByName
  <2>2. u \in Sap
    BY DEF Sound, Shape, Range
  <2> QED BY <1>1, <2>1, <2>2
<1>6. ASSUME AllFit PROVE Everyone(w, T) /\ NoneIdle(w, m)
  <2>1. NONE \notin Service
    BY PortAssumption
  <2>2. Everyone(w, T)
    BY <1>1, <1>6, <2>1 DEF Sound, Everyone
  <2>3. NoneIdle(w, m)
    BY <1>6 DEF Sound, NoneIdle, FreeEnds
  <2> QED BY <2>2, <2>3
<1> QED BY <1>2, <1>3, <1>4, <1>5, <1>6 DEF Sound

\* A service gets its SPP, or, when all its far ends are free, loses it.
LEMMA Provides ==
  ASSUME NEW r, NEW T \in SUBSET Sap, NEW m, Sound(r, T, m), NEW n \in Service, NEW p \in Spp,
         NEW w, Shape(w), w.sapEnd = r.sapEnd, w.sppEnds = r.sppEnds,
         w.waiting = r.waiting, w.fatal = r.fatal,
         \A q \in Port \ {p} : w.name[q] = r.name[q],
         \A o \in Service \ {n} : w.provider[o] = r.provider[o],
         \/ r.provider[n] = NONE /\ r.name[p] = NONE /\ w.provider[n] = p /\ w.name[p] = n
         \/ r.name[p] = n /\ w.provider[n] = NONE /\ w.name[p] = NONE
            /\ \A i \in 1 .. NumFarEnd[p] : r.sppEnds[p][i] = NONE,
         m \in {n, NONE}
  PROVE  Sound(w, T, IF w.provider[n] = NONE THEN NONE ELSE n)
<1>1. \A u \in Sap : u \in Port \ {p}
  BY PortAssumption DEF Port
<1>2. NONE \notin Spp /\ NONE \notin Service /\ NONE \notin Sap
  BY PortAssumption DEF Port
<1>3. Mirror(w) /\ ~ w.fatal /\ WaitsOnce(w)
  BY DEF Sound, Mirror, WaitsOnce
<1>4. Provided(w)
  <2>1. \A q \in Spp \ {p} : q \in Port \ {p}
    BY DEF Port
  <2> QED BY <1>2, <2>1 DEF Sound, Provided
<1>5. \A s \in Sap : r.sapEnd[s] # NoEnd => r.name[s] # n
  <2> SUFFICES ASSUME NEW s \in Sap, r.sapEnd[s] # NoEnd, r.name[s] = n PROVE FALSE
    OBVIOUS
  <2>1. r.provider[n] = r.sapEnd[s].port
    BY DEF Sound, BoundByName
  <2>2. PICK q \in Spp : \E j \in 1 .. NumFarEnd[q] : r.sapEnd[s] = [port |-> q, index |-> j]
    BY EndIs DEF Sound
  <2> PICK i \in 1 .. NumFarEnd[q] : r.sapEnd[s] = [port |-> q, index |-> i]
    BY <2>2
  <2>3. r.sppEnds[q][i] = s /\ r.provider[n] = q
    BY <2>1, <2>2 DEF Sound, Mirror
  <2>4. r.name[q] = n
    BY <2>3 DEF Sound, Provided
  <2> QED BY <1>2, <2>3, <2>4 DEF Sound, Provided
<1>6. BoundByName(w, T)
  BY <1>1, <1>5 DEF Sound, BoundByName
<1>7. WaitsByName(w, T)
  <2> SUFFICES ASSUME NEW o \in Service, NEW u \in Range(w.waiting[o])
               PROVE  u \notin T /\ w.name[u] = o /\ w.sapEnd[u] = NoEnd
    BY DEF WaitsByName
  <2>1. u \notin T /\ r.name[u] = o /\ r.sapEnd[u] = NoEnd
    BY DEF Sound, WaitsByName
  <2>2. u \in Sap
    BY DEF Sound, Shape, Range
  <2> QED BY <1>1, <2>1, <2>2
<1>8. ASSUME AllFit PROVE Everyone(w, T) /\ NoneIdle(w, IF w.provider[n] = NONE THEN NONE ELSE n)
  <2>1. Everyone(w, T)
    BY <1>1, <1>8 DEF Sound, Everyone
  <2>2. NoneIdle(w, IF w.provider[n] = NONE THEN NONE ELSE n)
    BY <1>2, <1>8 DEF Sound, NoneIdle, FreeEnds
  <2> QED BY <2>1, <2>2
<1> QED BY <1>3, <1>4, <1>6, <1>7, <1>8 DEF Sound
-----------------------------------------------------------------------------
(* The operations on the record.                                           *)

\* The first free far end.
LEMMA FirstFree ==
  ASSUME NEW r, Shape(r), NEW p \in Spp, FreeEnds(r, p) # {}
  PROVE  Min(FreeEnds(r, p)) \in 1 .. NumFarEnd[p] /\ r.sppEnds[p][Min(FreeEnds(r, p))] = NONE
<1>1. FreeEnds(r, p) \subseteq 1 .. NumFarEnd[p]
  BY DEF FreeEnds, Shape
<1>2. FreeEnds(r, p) \in SUBSET Nat
  BY <1>1
<1>3. Min(FreeEnds(r, p)) \in FreeEnds(r, p)
  BY <1>2, MinIs
<1> QED BY <1>1, <1>3 DEF FreeEnds

\* What Shape says of the far ends.
EndsTyped(e, f) ==
  /\ DOMAIN e = Sap
  /\ \A s \in Sap : e[s] = NoEnd
                   \/ \E p \in Spp : \E i \in 1 .. NumFarEnd[p] : e[s] = [port |-> p, index |-> i]
  /\ DOMAIN f = Spp
  /\ \A p \in Spp : f[p] \in [1 .. NumFarEnd[p] -> Sap \cup {NONE}]

\* The fields of a registry in which the queue of service n has become q.
WithQueue(r, n, q) == [r EXCEPT !.waiting[n] = q]

LEMMA QueueIs ==
  ASSUME NEW r, Shape(r), NEW n \in Service, NEW q \in Seq(Sap),
         NEW w, w = WithQueue(r, n, q)
  PROVE  /\ Shape(w)
         /\ w.name = r.name /\ w.provider = r.provider /\ w.sapEnd = r.sapEnd
         /\ w.sppEnds = r.sppEnds /\ w.fatal = r.fatal
         /\ w.waiting[n] = q /\ \A o \in Service \ {n} : w.waiting[o] = r.waiting[o]
<1>1. /\ w.name = r.name /\ w.provider = r.provider /\ w.sapEnd = r.sapEnd
      /\ w.sppEnds = r.sppEnds /\ w.fatal = r.fatal
      /\ w.waiting = [r.waiting EXCEPT ![n] = q]
  BY DEF Shape, WithQueue
<1>2. w = [name |-> w.name, provider |-> w.provider, waiting |-> w.waiting,
           sapEnd |-> w.sapEnd, sppEnds |-> w.sppEnds, fatal |-> w.fatal]
  BY DEF Shape, WithQueue
<1>3. w.waiting \in [Service -> Seq(Sap)]
  BY <1>1 DEF Shape
<1>4. Shape(w)
  <2>1. EndsTyped(r.sapEnd, r.sppEnds)
    BY DEF Shape, EndsTyped
  <2>2. EndsTyped(w.sapEnd, w.sppEnds) /\ w.fatal \in BOOLEAN
    BY <1>1, <2>1 DEF Shape
  <2>3. w.name \in [Port -> Service \cup {NONE}] /\ w.provider \in [Service -> Spp \cup {NONE}]
    BY <1>1 DEF Shape
  <2> QED BY <1>2, <1>3, <2>2, <2>3 DEF Shape, EndsTyped
<1>5. w.waiting[n] = q /\ \A o \in Service \ {n} : w.waiting[o] = r.waiting[o]
  BY <1>1 DEF Shape
<1> QED BY <1>1, <1>4, <1>5

\* The fields of a registry in which two far ends have become another pair.
Ends(r, s, p, i, e, f) == [r EXCEPT !.sapEnd[s] = e, !.sppEnds[p][i] = f]

LEMMA EndsAre ==
  ASSUME NEW r, Shape(r), NEW s \in Sap, NEW p \in Spp, NEW i \in 1 .. NumFarEnd[p],
         NEW e, NEW f,
         (e = NoEnd /\ f = NONE) \/ (e = EndAt(p, i) /\ f = s),
         NEW w, w = Ends(r, s, p, i, e, f)
  PROVE  /\ Shape(w)
         /\ w.name = r.name /\ w.provider = r.provider /\ w.waiting = r.waiting
         /\ w.fatal = r.fatal
         /\ NewEnds(r, w, s, p, i, e, f)
<1>1. /\ w.name = r.name /\ w.provider = r.provider /\ w.waiting = r.waiting
      /\ w.fatal = r.fatal
      /\ w.sapEnd = [r.sapEnd EXCEPT ![s] = e]
      /\ w.sppEnds = [r.sppEnds EXCEPT ![p][i] = f]
  BY DEF Shape, Ends
<1>2. w = [name |-> w.name, provider |-> w.provider, waiting |-> w.waiting,
           sapEnd |-> w.sapEnd, sppEnds |-> w.sppEnds, fatal |-> w.fatal]
  BY DEF Shape, Ends
<1>3. DOMAIN r.sapEnd = Sap /\ DOMAIN r.sppEnds = Spp
      /\ \A q \in Spp : r.sppEnds[q] \in [1 .. NumFarEnd[q] -> Sap \cup {NONE}]
  BY DEF Shape
<1>4. DOMAIN w.sapEnd = Sap /\ w.sapEnd[s] = e
      /\ \A u \in Sap \ {s} : w.sapEnd[u] = r.sapEnd[u]
  BY <1>1, <1>3
<1>5. DOMAIN w.sppEnds = Spp /\ w.sppEnds[p] = [r.sppEnds[p] EXCEPT ![i] = f]
      /\ \A q \in Spp \ {p} : w.sppEnds[q] = r.sppEnds[q]
  BY <1>1, <1>3
<1>6. f \in Sap \cup {NONE}
  OBVIOUS
<1>7. \A q \in Spp : w.sppEnds[q] \in [1 .. NumFarEnd[q] -> Sap \cup {NONE}]
  <2>1. r.sppEnds[p] \in [1 .. NumFarEnd[p] -> Sap \cup {NONE}]
    BY <1>3
  <2>2. w.sppEnds[p] \in [1 .. NumFarEnd[p] -> Sap \cup {NONE}]
    BY <1>5, <1>6, <2>1
  <2>3. \A q \in Spp \ {p} : w.sppEnds[q] \in [1 .. NumFarEnd[q] -> Sap \cup {NONE}]
    BY <1>3, <1>5
  <2> QED BY <2>2, <2>3
<1>8. \A u \in Sap : \/ w.sapEnd[u] = NoEnd
                     \/ \E q \in Spp : \E j \in 1 .. NumFarEnd[q] :
                          w.sapEnd[u] = [port |-> q, index |-> j]
  <2>1. TAKE u \in Sap
  <2>2. CASE u = s
    BY <1>4, <2>2 DEF EndAt
  <2>3. CASE u # s
    <3>1. w.sapEnd[u] = r.sapEnd[u]
      BY <1>4, <2>3
    <3>2. \/ r.sapEnd[u] = NoEnd
          \/ \E q \in Spp : \E j \in 1 .. NumFarEnd[q] : r.sapEnd[u] = [port |-> q, index |-> j]
      BY DEF Shape
    <3> QED BY <3>1, <3>2
  <2> QED BY <2>2, <2>3
<1>9. Shape(w)
  BY <1>1, <1>2, <1>4, <1>5, <1>7, <1>8 DEF Shape
<1>10. w.sppEnds[p][i] = f
  BY <1>3, <1>5
<1>11. \A q \in Spp : \A j \in 1 .. NumFarEnd[q] :
         <<q, j>> # <<p, i>> => w.sppEnds[q][j] = r.sppEnds[q][j]
  BY <1>3, <1>5
<1> QED BY <1>1, <1>4, <1>9, <1>10, <1>11 DEF NewEnds

\* The fields of a registry in which a port has another name.
WithName(r, q, n) == [r EXCEPT !.name[q] = n]

LEMMA NameIs ==
  ASSUME NEW r, Shape(r), NEW q \in Port, NEW n \in Service \cup {NONE},
         NEW w, w = WithName(r, q, n)
  PROVE  /\ Shape(w)
         /\ w.provider = r.provider /\ w.waiting = r.waiting /\ w.sapEnd = r.sapEnd
         /\ w.sppEnds = r.sppEnds /\ w.fatal = r.fatal
         /\ w.name[q] = n /\ \A o \in Port \ {q} : w.name[o] = r.name[o]
<1>1. /\ w.provider = r.provider /\ w.waiting = r.waiting /\ w.sapEnd = r.sapEnd
      /\ w.sppEnds = r.sppEnds /\ w.fatal = r.fatal
      /\ w.name = [r.name EXCEPT ![q] = n]
  BY DEF Shape, WithName
<1>2. w = [name |-> w.name, provider |-> w.provider, waiting |-> w.waiting,
           sapEnd |-> w.sapEnd, sppEnds |-> w.sppEnds, fatal |-> w.fatal]
  BY DEF Shape, WithName
<1>3. w.name \in [Port -> Service \cup {NONE}]
  BY <1>1 DEF Shape
<1>4. Shape(w)
  <2>1. EndsTyped(r.sapEnd, r.sppEnds)
    BY DEF Shape, EndsTyped
  <2>2. EndsTyped(w.sapEnd, w.sppEnds) /\ w.fatal \in BOOLEAN
    BY <1>1, <2>1 DEF Shape
  <2>3. w.provider \in [Service -> Spp \cup {NONE}] /\ w.waiting \in [Service -> Seq(Sap)]
    BY <1>1 DEF Shape
  <2> QED BY <1>2, <1>3, <2>2, <2>3 DEF Shape, EndsTyped
<1> QED BY <1>1, <1>4 DEF Shape

\* The fields of a registry in which a service has another provider.
WithProvider(r, n, p) == [r EXCEPT !.provider[n] = p]

LEMMA ProviderIs ==
  ASSUME NEW r, Shape(r), NEW n \in Service, NEW p \in Spp \cup {NONE},
         NEW w, w = WithProvider(r, n, p)
  PROVE  /\ Shape(w)
         /\ w.name = r.name /\ w.waiting = r.waiting /\ w.sapEnd = r.sapEnd
         /\ w.sppEnds = r.sppEnds /\ w.fatal = r.fatal
         /\ w.provider[n] = p /\ \A o \in Service \ {n} : w.provider[o] = r.provider[o]
<1>1. /\ w.name = r.name /\ w.waiting = r.waiting /\ w.sapEnd = r.sapEnd
      /\ w.sppEnds = r.sppEnds /\ w.fatal = r.fatal
      /\ w.provider = [r.provider EXCEPT ![n] = p]
  BY DEF Shape, WithProvider
<1>2. w = [name |-> w.name, provider |-> w.provider, waiting |-> w.waiting,
           sapEnd |-> w.sapEnd, sppEnds |-> w.sppEnds, fatal |-> w.fatal]
  BY DEF Shape, WithProvider
<1>3. w.provider \in [Service -> Spp \cup {NONE}]
  BY <1>1 DEF Shape
<1>4. Shape(w)
  <2>1. EndsTyped(r.sapEnd, r.sppEnds)
    BY DEF Shape, EndsTyped
  <2>2. EndsTyped(w.sapEnd, w.sppEnds) /\ w.fatal \in BOOLEAN
    BY <1>1, <2>1 DEF Shape
  <2>3. w.name \in [Port -> Service \cup {NONE}] /\ w.waiting \in [Service -> Seq(Sap)]
    BY <1>1 DEF Shape
  <2> QED BY <1>2, <1>3, <2>2, <2>3 DEF Shape, EndsTyped
<1> QED BY <1>1, <1>4 DEF Shape

\* A queue of distinct SAPs that one has left, from whichever place.
LEMMA WithoutOne ==
  ASSUME NEW q \in Seq(Sap), IsInjective(q), NEW i \in 1 .. Len(q)
  PROVE  /\ RemoveAt(q, i) \in Seq(Sap)
         /\ Range(RemoveAt(q, i)) = Range(q) \ {q[i]}
         /\ IsInjective(RemoveAt(q, i))
<1> DEFINE w == RemoveAt(q, i)
<1>1. Len(q) \in Nat /\ DOMAIN q = 1 .. Len(q)
  OBVIOUS
<1>5. w \in Seq(Sap) /\ Len(w) = Len(q) - 1
  BY RemoveAtIs
<1>7. \A j \in 1 .. Len(q) - 1 : w[j] = IF j < i THEN q[j] ELSE q[j + 1]
  BY RemoveAtIs
<1> HIDE DEF w
<1>8. DOMAIN w = 1 .. Len(q) - 1
  BY <1>5
<1>9. \A j \in 1 .. Len(q) - 1 :
        j \in 1 .. Len(q) /\ j + 1 \in 1 .. Len(q) /\ (j < i => j # i) /\ (~ (j < i) => j + 1 # i)
  BY <1>1
<1>10. \A j \in 1 .. Len(q) : j < i => j \in 1 .. Len(q) - 1
  BY <1>1
<1>11. \A j \in 1 .. Len(q) : ~ (j < i) /\ j # i =>
         j - 1 \in 1 .. Len(q) - 1 /\ ~ (j - 1 < i) /\ j - 1 + 1 = j
  BY <1>1
<1>12. Range(w) = Range(q) \ {q[i]}
  <2>1. \A x \in Range(w) : x \in Range(q) /\ x # q[i]
    <3> SUFFICES ASSUME NEW j \in 1 .. Len(q) - 1 PROVE w[j] \in Range(q) /\ w[j] # q[i]
      BY <1>8 DEF Range
    <3> QED BY <1>1, <1>7, <1>9 DEF Range, IsInjective
  <2>2. \A j \in 1 .. Len(q) : j # i => q[j] \in Range(w)
    <3> SUFFICES ASSUME NEW j \in 1 .. Len(q), j # i PROVE q[j] \in Range(w)
      OBVIOUS
    <3>1. CASE j < i
      BY <1>7, <1>8, <1>10, <3>1 DEF Range
    <3>2. CASE ~ (j < i)
      <4>1. w[j - 1] = q[j] /\ j - 1 \in 1 .. Len(q) - 1
        BY <1>7, <1>11, <3>2
      <4> QED BY <1>8, <4>1 DEF Range
    <3> QED BY <3>1, <3>2
  <2>3. \A x \in Range(q) : x # q[i] => x \in Range(w)
    BY <1>1, <2>2 DEF Range
  <2> QED BY <2>1, <2>3
<1>13. IsInjective(w)
  <2> SUFFICES ASSUME NEW j \in 1 .. Len(q) - 1, NEW k \in 1 .. Len(q) - 1, w[j] = w[k]
               PROVE  j = k
    BY <1>8 DEF IsInjective
  <2>1. (IF j < i THEN j ELSE j + 1) = (IF k < i THEN k ELSE k + 1)
    BY <1>1, <1>7, <1>9 DEF IsInjective
  <2> QED BY <1>1, <2>1
<1> QED BY <1>5, <1>12, <1>13 DEF w
-----------------------------------------------------------------------------
(* Who waits for longer, and who is bound.                                 *)

\* t waits for longer than s in the queue q.
Before(q, t, s) == \E i, j \in DOMAIN q : i < j /\ q[i] = t /\ q[j] = s

IsBound(r, n, t) == r.name[t] = n /\ r.sapEnd[t] # NoEnd

\* From r to w, nobody gets ahead of a SAP that waits in both.
Fair(r, w) ==
  \A n \in Service : \A s \in Range(r.waiting[n]) \cap Range(w.waiting[n]) : \A t \in Sap :
    /\ Before(w.waiting[n], t, s) => Before(r.waiting[n], t, s)
    /\ IsBound(w, n, t) => IsBound(r, n, t) \/ Before(r.waiting[n], t, s)

LEMMA FairSame == ASSUME NEW r PROVE Fair(r, r)
BY DEF Fair

\* Nobody comes back to a queue he was in.
LEMMA FairThrough ==
  ASSUME NEW r, NEW v, NEW w, Fair(r, v), Fair(v, w),
         \A n \in Service : Range(r.waiting[n]) \cap Range(w.waiting[n]) \subseteq Range(v.waiting[n])
  PROVE  Fair(r, w)
<1> SUFFICES ASSUME NEW n \in Service, NEW s \in Range(r.waiting[n]) \cap Range(w.waiting[n]),
                    NEW t \in Sap
             PROVE  /\ Before(w.waiting[n], t, s) => Before(r.waiting[n], t, s)
                    /\ IsBound(w, n, t) => IsBound(r, n, t) \/ Before(r.waiting[n], t, s)
  BY DEF Fair
<1>1. s \in Range(v.waiting[n])
  OBVIOUS
<1>2. /\ Before(w.waiting[n], t, s) => Before(v.waiting[n], t, s)
      /\ IsBound(w, n, t) => IsBound(v, n, t) \/ Before(v.waiting[n], t, s)
  BY <1>1 DEF Fair
<1>3. /\ Before(v.waiting[n], t, s) => Before(r.waiting[n], t, s)
      /\ IsBound(v, n, t) => IsBound(r, n, t) \/ Before(r.waiting[n], t, s)
  BY <1>1 DEF Fair
<1> QED BY <1>2, <1>3

\* The queue is as it was, or somebody has left it, or somebody has come to its end; and
\* nobody is bound who was not.
LEMMA BeforeWithout ==
  ASSUME NEW q \in Seq(Sap), NEW i \in 1 .. Len(q), NEW s, NEW t, Before(RemoveAt(q, i), t, s)
  PROVE  Before(q, t, s)
<1> DEFINE w == RemoveAt(q, i)
<1>1. Len(q) \in Nat /\ DOMAIN q = 1 .. Len(q)
  OBVIOUS
<1>2. w \in Seq(Sap) /\ Len(w) = Len(q) - 1
  BY RemoveAtIs
<1>3. \A j \in 1 .. Len(q) - 1 : w[j] = IF j < i THEN q[j] ELSE q[j + 1]
  BY RemoveAtIs
<1> HIDE DEF w
<1>4. DOMAIN w = 1 .. Len(q) - 1
  BY <1>2
<1>5. PICK a \in 1 .. Len(q) - 1, b \in 1 .. Len(q) - 1 : a < b /\ w[a] = t /\ w[b] = s
  BY <1>4 DEF Before, w
<1>6. w[a] = q[IF a < i THEN a ELSE a + 1] /\ w[b] = q[IF b < i THEN b ELSE b + 1]
  BY <1>3
<1>7. /\ (IF a < i THEN a ELSE a + 1) \in 1 .. Len(q)
      /\ (IF b < i THEN b ELSE b + 1) \in 1 .. Len(q)
      /\ (IF a < i THEN a ELSE a + 1) < (IF b < i THEN b ELSE b + 1)
  BY <1>1, <1>5
<1> QED BY <1>1, <1>5, <1>6, <1>7 DEF Before

LEMMA BeforeAppended ==
  ASSUME NEW q \in Seq(Sap), NEW u \in Sap, NEW s \in Range(q), s # u, NEW t,
         Before(Append(q, u), t, s)
  PROVE  Before(q, t, s)
<1> DEFINE w == Append(q, u)
<1>1. Len(q) \in Nat /\ DOMAIN q = 1 .. Len(q)
  OBVIOUS
<1>2. DOMAIN w = 1 .. Len(q) + 1 /\ w[Len(q) + 1] = u /\ \A i \in 1 .. Len(q) : w[i] = q[i]
  BY AppendProperties
<1> HIDE DEF w
<1>3. PICK a \in 1 .. Len(q) + 1, b \in 1 .. Len(q) + 1 : a < b /\ w[a] = t /\ w[b] = s
  BY <1>2 DEF Before, w
<1>4. b # Len(q) + 1
  BY <1>2, <1>3
<1>5. b \in 1 .. Len(q) /\ a \in 1 .. Len(q)
  BY <1>1, <1>3, <1>4
<1>6. q[a] = t /\ q[b] = s
  BY <1>2, <1>3, <1>5
<1> QED BY <1>1, <1>3, <1>5, <1>6 DEF Before

\* One of those that wait leaves the queue.
LEMMA FairTakenOut ==
  ASSUME NEW r, Shape(r), NEW n \in Service, NEW i \in 1 .. Len(r.waiting[n]),
         NEW w, w.name = r.name, w.sapEnd = r.sapEnd,
         \A o \in Service \ {n} : w.waiting[o] = r.waiting[o],
         w.waiting[n] = RemoveAt(r.waiting[n], i)
  PROVE  Fair(r, w)
<1> SUFFICES ASSUME NEW o \in Service, NEW s \in Range(r.waiting[o]) \cap Range(w.waiting[o]),
                    NEW t \in Sap
             PROVE  /\ Before(w.waiting[o], t, s) => Before(r.waiting[o], t, s)
                    /\ IsBound(w, o, t) => IsBound(r, o, t) \/ Before(r.waiting[o], t, s)
  BY DEF Fair
<1>1. IsBound(w, o, t) => IsBound(r, o, t)
  BY DEF IsBound
<1>2. CASE o = n
  <2>1. r.waiting[n] \in Seq(Sap)
    BY DEF Shape
  <2>2. ASSUME Before(w.waiting[o], t, s) PROVE Before(r.waiting[o], t, s)
    <3>1. Before(RemoveAt(r.waiting[n], i), t, s)
      BY <1>2, <2>2
    <3> QED BY <1>2, <2>1, <3>1, BeforeWithout
  <2> QED BY <1>1, <2>2
<1>3. CASE o # n
  BY <1>1, <1>3
<1> QED BY <1>2, <1>3

\* Somebody who was not there comes to the end of the queue.
LEMMA FairQueuedUp ==
  ASSUME NEW r, Shape(r), NEW n \in Service, NEW u \in Sap, u \notin Range(r.waiting[n]),
         NEW w, w.sapEnd = r.sapEnd, r.sapEnd[u] = NoEnd,
         \A v \in Sap \ {u} : w.name[v] = r.name[v],
         \A o \in Service \ {n} : w.waiting[o] = r.waiting[o],
         w.waiting[n] = Behind(r.waiting[n], u)
  PROVE  Fair(r, w)
<1> SUFFICES ASSUME NEW o \in Service, NEW s \in Range(r.waiting[o]) \cap Range(w.waiting[o]),
                    NEW t \in Sap
             PROVE  /\ Before(w.waiting[o], t, s) => Before(r.waiting[o], t, s)
                    /\ IsBound(w, o, t) => IsBound(r, o, t) \/ Before(r.waiting[o], t, s)
  BY DEF Fair
<1>1. IsBound(w, o, t) => IsBound(r, o, t)
  BY DEF IsBound
<1>2. CASE o = n
  <2>1. r.waiting[n] \in Seq(Sap) /\ s # u
    BY <1>2 DEF Shape
  <2>2. ASSUME Before(w.waiting[o], t, s) PROVE Before(r.waiting[o], t, s)
    <3>1. Before(Append(r.waiting[n], u), t, s) /\ s \in Range(r.waiting[n])
      BY <1>2, <2>2 DEF Behind
    <3> QED BY <1>2, <2>1, <3>1, BeforeAppended
  <2> QED BY <1>1, <2>2
<1>3. CASE o # n
  BY <1>1, <1>3
<1> QED BY <1>2, <1>3

\* Queues and names stay, and nobody is bound who was not, except u, of service m, whom all
\* that wait for m let pass.
LEMMA FairBound ==
  ASSUME NEW r, NEW w, w.waiting = r.waiting, NEW u \in Sap,
         \A v \in Sap \ {u} : w.name[v] = r.name[v] /\ (w.sapEnd[v] # NoEnd => r.sapEnd[v] # NoEnd),
         w.sapEnd[u] # NoEnd =>
           \A s \in Range(r.waiting[w.name[u]]) : Before(r.waiting[w.name[u]], u, s)
  PROVE  Fair(r, w)
BY DEF Fair, IsBound

\* The first of those that wait is bound to the SPP of the service.
LEMMA FairServed ==
  ASSUME NEW r, Shape(r), NEW n \in Service, r.waiting[n] # <<>>, IsInjective(r.waiting[n]),
         NEW w, w.name = r.name,
         \A v \in Sap : v # r.waiting[n][1] => w.sapEnd[v] = r.sapEnd[v],
         r.name[r.waiting[n][1]] = n,
         \A o \in Service \ {n} : w.waiting[o] = r.waiting[o],
         w.waiting[n] = RemoveAt(r.waiting[n], 1)
  PROVE  Fair(r, w)
<1> DEFINE u == r.waiting[n][1]
<1>1. r.waiting[n] \in Seq(Sap) /\ Len(r.waiting[n]) \in Nat /\ 1 \in 1 .. Len(r.waiting[n])
      /\ DOMAIN r.waiting[n] = 1 .. Len(r.waiting[n])
  BY DEF Shape
<1>2. Range(RemoveAt(r.waiting[n], 1)) = Range(r.waiting[n]) \ {u}
  BY <1>1, WithoutOne
<1> HIDE DEF u
<1>3. \A v \in Sap : v # u => w.sapEnd[v] = r.sapEnd[v]
  BY DEF u
<1> SUFFICES ASSUME NEW o \in Service, NEW s \in Range(r.waiting[o]) \cap Range(w.waiting[o]),
                    NEW t \in Sap
             PROVE  /\ Before(w.waiting[o], t, s) => Before(r.waiting[o], t, s)
                    /\ IsBound(w, o, t) => IsBound(r, o, t) \/ Before(r.waiting[o], t, s)
  BY DEF Fair
<1>4. CASE o = n
  <2>1. ASSUME Before(w.waiting[o], t, s) PROVE Before(r.waiting[o], t, s)
    <3>1. Before(RemoveAt(r.waiting[n], 1), t, s)
      BY <1>4, <2>1
    <3> QED BY <1>1, <1>4, <3>1, BeforeWithout
  <2>2. ASSUME IsBound(w, o, t), t = u PROVE Before(r.waiting[o], t, s)
    <3>1. s \in Range(r.waiting[n]) /\ s # u
      BY <1>2, <1>4
    <3>2. PICK j \in 1 .. Len(r.waiting[n]) : r.waiting[n][j] = s
      BY <1>1, <3>1 DEF Range
    <3>3. j # 1
      BY <3>1, <3>2 DEF u
    <3>4. 1 < j
      BY <1>1, <3>2, <3>3
    <3> QED BY <1>1, <1>4, <2>2, <3>2, <3>4 DEF Before, u
  <2>3. IsBound(w, o, t) /\ t # u => IsBound(r, o, t)
    BY <1>3 DEF IsBound
  <2> QED BY <2>1, <2>2, <2>3
<1>5. CASE o # n
  <2>1. IsBound(w, o, t) => IsBound(r, o, t)
    <3>1. t = u => w.name[t] = n
      BY DEF u
    <3> QED BY <1>3, <1>5, <3>1 DEF IsBound
  <2> QED BY <1>5, <2>1
<1> QED BY <1>4, <1>5
-----------------------------------------------------------------------------
(* bindQueuedSapsToSpp.                                                    *)

\* The rest of a queue is the queue without its first.
LEMMA TailIs ==
  ASSUME NEW q \in Seq(Sap), q # <<>>
  PROVE  Tail(q) = RemoveAt(q, 1) /\ 1 \in 1 .. Len(q) /\ Head(q) = q[1] /\ q[1] \in Sap
<1>1. Len(q) \in Nat /\ 1 \in 1 .. Len(q) /\ Head(q) = q[1]
  OBVIOUS
<1>2. Tail(q) \in Seq(Sap) /\ Len(Tail(q)) = Len(q) - 1
      /\ \A i \in 1 .. Len(Tail(q)) : Tail(q)[i] = q[i + 1]
  BY HeadTailProperties
<1>3. RemoveAt(q, 1) \in Seq(Sap) /\ Len(RemoveAt(q, 1)) = Len(q) - 1
      /\ \A j \in 1 .. Len(q) - 1 : RemoveAt(q, 1)[j] = IF j < 1 THEN q[j] ELSE q[j + 1]
  BY <1>1, RemoveAtIs
<1>4. \A j \in 1 .. Len(q) - 1 : ~ (j < 1)
  BY <1>1
<1>5. \A j \in 1 .. Len(Tail(q)) : Tail(q)[j] = RemoveAt(q, 1)[j]
  BY <1>2, <1>3, <1>4
<1>6. Tail(q) = RemoveAt(q, 1)
  BY <1>2, <1>3, <1>5, SeqEqual
<1> QED BY <1>1, <1>6, ElementOfSeq

\* Without AllFit less is claimed.
LEMMA SoundFewer ==
  ASSUME NEW r, NEW T, NEW U, NEW m, NEW k, Sound(r, T, m), U \subseteq T, ~ AllFit
  PROVE  Sound(r, U, k)
<1>1. BoundByName(r, U)
  BY DEF Sound, BoundByName
<1>2. WaitsByName(r, U)
  BY DEF Sound, WaitsByName
<1> QED BY <1>1, <1>2 DEF Sound

\* A SAP without a far end is bound to the first free one, or not at all.
LEMMA BindIs ==
  ASSUME NEW r, Shape(r), NEW s \in Sap, NEW p \in Spp, r.sapEnd[s] = NoEnd,
         <<s, p>> \in Complementary, FreeEnds(r, p) # {}, NEW w, w = Bind(r, s, p),
         NEW i, i = Min(FreeEnds(r, p))
  PROVE  /\ i \in 1 .. NumFarEnd[p] /\ r.sppEnds[p][i] = NONE
         /\ Shape(w)
         /\ w.name = r.name /\ w.provider = r.provider /\ w.waiting = r.waiting
         /\ w.fatal = r.fatal
         /\ NewEnds(r, w, s, p, i, EndAt(p, i), s)
<1>1. i \in 1 .. NumFarEnd[p] /\ r.sppEnds[p][i] = NONE
  BY FirstFree
<1>2. w = [r EXCEPT !.sapEnd[s] = [port |-> p, index |-> i], !.sppEnds[p][i] = s]
  BY DEF Bind
<1>3. w = Ends(r, s, p, i, EndAt(p, i), s)
  BY <1>2 DEF Ends, EndAt
<1> QED BY <1>1, <1>3, EndsAre

LEMMA BindNot ==
  ASSUME NEW r, NEW s \in Sap, NEW p \in Spp, r.sapEnd[s] = NoEnd,
         <<s, p>> \notin Complementary \/ FreeEnds(r, p) = {}
  PROVE  Bind(r, s, p) = r
BY DEF Bind

\* What one turn of the loop makes of the registry.
Turned(r, w, T, p, n) ==
  /\ Sound(w, T, n)
  /\ w.name = r.name /\ w.provider = r.provider
  /\ Len(w.waiting[n]) = Len(r.waiting[n]) - 1
  /\ \A o \in Service : Range(w.waiting[o]) \subseteq Range(r.waiting[o])
  /\ AllFit => FreeEnds(w, p) = FreeEnds(r, p) \ {Min(FreeEnds(r, p))}
  /\ Fair(r, w)

LEMMA BindFirstIs ==
  ASSUME NEW r, NEW T \in SUBSET Sap, NEW p \in Spp, NEW n \in Service, Sound(r, T, n),
         r.name[p] = n, r.waiting[n] # <<>>, AllFit => FreeEnds(r, p) # {},
         NEW w, w = BindFirst(r, p)
  PROVE  Turned(r, w, T, p, n)
<1> DEFINE q == r.waiting[n]
           s == q[1]
           v == WithQueue(r, n, RemoveAt(q, 1))
           i == Min(FreeEnds(r, p))
<1>1. q \in Seq(Sap) /\ q # <<>> /\ IsInjective(q) /\ Shape(r)
  BY DEF Sound, Shape, WaitsOnce
<1>2. Tail(q) = RemoveAt(q, 1) /\ 1 \in 1 .. Len(q) /\ Head(q) = s /\ s \in Sap
  BY <1>1, TailIs
<1>3. w = Bind(v, s, p)
  BY <1>2 DEF BindFirst, WithQueue
<1>4. RemoveAt(q, 1) \in Seq(Sap) /\ Range(RemoveAt(q, 1)) = Range(q) \ {s}
      /\ IsInjective(RemoveAt(q, 1))
  BY <1>1, <1>2, WithoutOne
<1>5. Len(RemoveAt(q, 1)) = Len(q) - 1
  BY <1>1, <1>2, RemoveAtIs
<1>6. /\ Shape(v)
      /\ v.name = r.name /\ v.provider = r.provider /\ v.sapEnd = r.sapEnd
      /\ v.sppEnds = r.sppEnds /\ v.fatal = r.fatal
      /\ v.waiting[n] = RemoveAt(q, 1) /\ \A o \in Service \ {n} : v.waiting[o] = r.waiting[o]
  BY <1>1, <1>4, QueueIs
<1>7. s \in Range(q)
  BY <1>1, <1>2 DEF Range
<1>8. r.name[s] = n /\ r.sapEnd[s] = NoEnd /\ s \notin T
  BY <1>7 DEF Sound, WaitsByName
<1>9. r.provider[n] = p
  BY DEF Sound, Provided
<1>10. FreeEnds(v, p) = FreeEnds(r, p)
  BY <1>6 DEF FreeEnds
<1> HIDE DEF v, s, q, i
<1>11. Sound(v, T \cup {s}, n)
  <2>1. Range(v.waiting[n]) = Range(r.waiting[n]) \ {s} /\ IsInjective(v.waiting[n])
    BY <1>4, <1>6 DEF q
  <2>2. s \in Range(r.waiting[n])
    BY <1>7 DEF q
  <2> QED BY <1>2, <1>6, <2>1, <2>2, TakenOut
<1>12. \A o \in Service : Range(v.waiting[o]) \subseteq Range(r.waiting[o])
  BY <1>4, <1>6 DEF q
<1>13. CASE <<s, p>> \in Complementary /\ FreeEnds(r, p) # {}
  <2>1. i = Min(FreeEnds(v, p)) /\ v.sapEnd[s] = NoEnd /\ FreeEnds(v, p) # {}
    BY <1>6, <1>8, <1>10, <1>13 DEF i
  <2>2. /\ i \in 1 .. NumFarEnd[p] /\ v.sppEnds[p][i] = NONE
        /\ Shape(w)
        /\ w.name = v.name /\ w.provider = v.provider /\ w.waiting = v.waiting
        /\ w.fatal = v.fatal
        /\ NewEnds(v, w, s, p, i, EndAt(p, i), s)
    BY <1>2, <1>3, <1>6, <1>13, <2>1, BindIs
  <2>3. Sound(w, T, n)
    <3>1. w.name[s] = n /\ \A q0 \in Port \ {s} : w.name[q0] = v.name[q0]
      BY <1>6, <1>8, <2>2
    <3>2. v.provider[n] = p
      BY <1>6, <1>9
    <3>3. s \notin T /\ s \in Sap
      BY <1>2, <1>8
    <3> DEFINE U == T \cup {s}
    <3>5. U = T \cup {s} /\ Sound(v, U, n)
      BY <1>11
    <3> HIDE DEF U
    <3> QED BY <2>2, <3>1, <3>2, <3>3, <3>5, BoundThere
  <2>4. FreeEnds(w, p) = FreeEnds(r, p) \ {i}
    <3>1. DOMAIN w.sppEnds[p] = 1 .. NumFarEnd[p] /\ DOMAIN r.sppEnds[p] = 1 .. NumFarEnd[p]
      BY <1>1, <2>2 DEF Shape
    <3>2. \A j \in 1 .. NumFarEnd[p] : j # i => w.sppEnds[p][j] = r.sppEnds[p][j]
      BY <1>6, <2>2 DEF NewEnds
    <3>3. w.sppEnds[p][i] # NONE
      BY <1>2, <2>2, PortAssumption DEF Port, NewEnds
    <3> QED BY <3>1, <3>2, <3>3 DEF FreeEnds
  <2>5. Fair(r, w)
    <3>1. w.name = r.name /\ r.name[r.waiting[n][1]] = n
      BY <1>6, <1>8, <2>2 DEF s, q
    <3>2. \A u \in Sap : u # r.waiting[n][1] => w.sapEnd[u] = r.sapEnd[u]
      BY <1>6, <2>2 DEF s, q, NewEnds
    <3>3. \A o \in Service \ {n} : w.waiting[o] = r.waiting[o]
      BY <1>6, <2>2
    <3>4. w.waiting[n] = RemoveAt(r.waiting[n], 1) /\ IsInjective(r.waiting[n])
      BY <1>1, <1>6, <2>2 DEF q
    <3> QED BY <1>1, <3>1, <3>2, <3>3, <3>4, FairServed
  <2> QED BY <1>5, <1>6, <1>12, <2>2, <2>3, <2>4, <2>5 DEF i, q, Turned
<1>14. CASE <<s, p>> \notin Complementary \/ FreeEnds(r, p) = {}
  <2>1. ~ AllFit
    BY <1>2, <1>14 DEF AllFit
  <2>2. w = v
    BY <1>2, <1>3, <1>6, <1>8, <1>10, <1>14, BindNot
  <2>3. Sound(w, T, n)
    BY <1>11, <2>1, <2>2, SoundFewer
  <2>4. Fair(r, w)
    <3>1. 1 \in 1 .. Len(r.waiting[n]) /\ w.name = r.name /\ w.sapEnd = r.sapEnd
          /\ w.waiting[n] = RemoveAt(r.waiting[n], 1)
          /\ \A o \in Service \ {n} : w.waiting[o] = r.waiting[o]
      BY <1>2, <1>6, <2>2 DEF q
    <3> QED BY <1>1, <3>1, FairTakenOut
  <2> QED BY <1>5, <1>6, <1>12, <2>1, <2>2, <2>3, <2>4 DEF q, Turned
<1> QED BY <1>13, <1>14

\* The recursion of BindQueued.
Binding(f, r, p, n) == f = [k \in 0 .. n |-> IF k = 0 THEN r ELSE BindFirst(f[k - 1], p)]

LEMMA BindingExists ==
  ASSUME NEW r, NEW p, NEW n \in Nat
  PROVE  \E f : Binding(f, r, p, n)
<1> DEFINE T == {k \in Nat : \E f : Binding(f, r, p, k)}
<1>1. 0 \in T
  <2>1. Binding([i \in 0 .. 0 |-> r], r, p, 0)
    BY DEF Binding
  <2> QED BY <2>1
<1>2. ASSUME NEW k \in T PROVE k + 1 \in T
  <2>1. PICK f : Binding(f, r, p, k)
    BY <1>2
  <2> DEFINE last == BindFirst(f[k], p)
             g == [i \in 0 .. k + 1 |-> IF i \in 0 .. k THEN f[i] ELSE last]
  <2>2. ASSUME NEW i \in 0 .. k + 1
        PROVE  g[i] = IF i = 0 THEN r ELSE BindFirst(g[i - 1], p)
    <3>1. CASE i = 0
      BY <2>1, <3>1 DEF Binding
    <3>2. CASE i \in 1 .. k
      <4>1. g[i] = f[i] /\ g[i - 1] = f[i - 1] /\ i \in 0 .. k /\ i # 0
        BY <3>2
      <4> HIDE DEF g
      <4> QED BY <2>1, <4>1 DEF Binding
    <3>3. CASE i = k + 1
      <4>1. g[i] = last /\ g[i - 1] = f[k]
        BY <3>3
      <4> QED BY <3>3, <4>1
    <3> QED BY <3>1, <3>2, <3>3
  <2>3. \E h : Binding(h, r, p, k + 1)
    <3>1. Binding(g, r, p, k + 1)
      BY <2>2 DEF Binding
    <3> QED BY <3>1
  <2> QED BY <2>3
<1>3. T = Nat
  <2>1. T \in SUBSET Nat
    OBVIOUS
  <2> HIDE DEF T
  <2> QED BY <1>1, <1>2, <2>1, NumberInduction
<1> QED BY <1>3

LEMMA FreeEndsAre ==
  ASSUME NEW r, Shape(r), NEW p \in Spp
  PROVE  /\ FreeEnds(r, p) \in SUBSET Nat /\ IsFiniteSet(FreeEnds(r, p))
         /\ Cardinality(FreeEnds(r, p)) \in Nat
         /\ Cardinality(FreeEnds(r, p)) = 0 <=> FreeEnds(r, p) = {}
<1>1. FreeEnds(r, p) \in SUBSET (1 .. NumFarEnd[p]) /\ NumFarEnd[p] \in Nat
  BY PortAssumption DEF FreeEnds, Shape
<1>2. IsFiniteSet(1 .. NumFarEnd[p])
  BY <1>1, FS_Interval
<1>3. IsFiniteSet(FreeEnds(r, p))
  BY <1>1, <1>2, FS_Subset
<1> QED BY <1>1, <1>3, FS_CardinalityType, FS_EmptySet

\* What k turns have made of the registry r: the queue of n and the free far ends are fewer.
Served(r, x, T, p, n, k) ==
  /\ Sound(x, T, n) /\ x.name = r.name /\ x.provider = r.provider
  /\ Len(x.waiting[n]) = Len(r.waiting[n]) - k
  /\ \A o \in Service : Range(x.waiting[o]) \subseteq Range(r.waiting[o])
  /\ AllFit => Cardinality(FreeEnds(x, p)) = Cardinality(FreeEnds(r, p)) - k
  /\ Fair(r, x)

LEMMA ServedFirst ==
  ASSUME NEW r, NEW T \in SUBSET Sap, NEW p \in Spp, NEW n \in Service, Sound(r, T, n)
  PROVE  Served(r, r, T, p, n, 0)
<1>1. Shape(r) /\ Len(r.waiting[n]) \in Nat
  BY DEF Sound, Shape
<1>2. Cardinality(FreeEnds(r, p)) \in Nat
  BY <1>1, FreeEndsAre
<1>3. Len(r.waiting[n]) = Len(r.waiting[n]) - 0
  BY <1>1
<1>4. Cardinality(FreeEnds(r, p)) = Cardinality(FreeEnds(r, p)) - 0
  BY <1>2
<1> QED BY <1>3, <1>4, FairSame DEF Served

LEMMA ServedNext ==
  ASSUME NEW r, Shape(r), NEW x, NEW T \in SUBSET Sap, NEW p \in Spp, NEW n \in Service,
         NEW k \in Nat, Served(r, x, T, p, n, k), r.name[p] = n,
         k < Len(r.waiting[n]), k < Cardinality(FreeEnds(r, p)),
         NEW w, w = BindFirst(x, p)
  PROVE  Served(r, w, T, p, n, k + 1)
<1>1. Sound(x, T, n) /\ Shape(x) /\ x.name[p] = n
  BY DEF Served, Sound
<1>2. x.waiting[n] # <<>>
  <2>1. Len(x.waiting[n]) = Len(r.waiting[n]) - k /\ Len(r.waiting[n]) \in Nat
    BY DEF Served, Shape
  <2>2. Len(x.waiting[n]) # 0
    BY <2>1
  <2> QED BY <2>2
<1>3. /\ Cardinality(FreeEnds(x, p)) \in Nat /\ FreeEnds(x, p) \in SUBSET Nat
      /\ IsFiniteSet(FreeEnds(x, p)) /\ Cardinality(FreeEnds(r, p)) \in Nat
      /\ Cardinality(FreeEnds(x, p)) = 0 <=> FreeEnds(x, p) = {}
  BY <1>1, FreeEndsAre
<1>4. AllFit => FreeEnds(x, p) # {}
  BY <1>3 DEF Served
<1>5. /\ Sound(w, T, n)
      /\ w.name = x.name /\ w.provider = x.provider
      /\ Len(w.waiting[n]) = Len(x.waiting[n]) - 1
      /\ \A o \in Service : Range(w.waiting[o]) \subseteq Range(x.waiting[o])
      /\ AllFit => FreeEnds(w, p) = FreeEnds(x, p) \ {Min(FreeEnds(x, p))}
      /\ Fair(x, w)
  <2>1. Turned(x, w, T, p, n)
    BY <1>1, <1>2, <1>4, BindFirstIs
  <2> QED BY <2>1 DEF Turned
<1>6. Len(w.waiting[n]) = Len(r.waiting[n]) - (k + 1)
  <2>1. Len(x.waiting[n]) = Len(r.waiting[n]) - k /\ Len(r.waiting[n]) \in Nat
    BY DEF Served, Shape
  <2>2. Len(w.waiting[n]) = Len(x.waiting[n]) - 1
    BY <1>5
  <2> QED BY <2>1, <2>2
<1>7. \A o \in Service : Range(w.waiting[o]) \subseteq Range(r.waiting[o])
  BY <1>5 DEF Served
<1>8. ASSUME AllFit PROVE Cardinality(FreeEnds(w, p)) = Cardinality(FreeEnds(r, p)) - (k + 1)
  <2>1. Min(FreeEnds(x, p)) \in FreeEnds(x, p)
    BY <1>3, <1>4, <1>8, MinIs
  <2>2. Cardinality(FreeEnds(w, p)) = Cardinality(FreeEnds(x, p)) - 1
    BY <1>3, <1>5, <1>8, <2>1, FS_RemoveElement
  <2>3. Cardinality(FreeEnds(x, p)) = Cardinality(FreeEnds(r, p)) - k
    BY <1>8 DEF Served
  <2> QED BY <1>3, <2>2, <2>3
<1>9. Fair(r, w)
  <2>1. Fair(r, x) /\ Fair(x, w)
    BY <1>5 DEF Served
  <2>2. \A o \in Service : Range(r.waiting[o]) \cap Range(w.waiting[o]) \subseteq Range(x.waiting[o])
    BY <1>5
  <2> QED BY <2>1, <2>2, FairThrough
<1>10. w.name = r.name /\ w.provider = r.provider
  BY <1>5 DEF Served
<1> QED BY <1>5, <1>6, <1>7, <1>8, <1>9, <1>10 DEF Served

\* What the loop makes of the registry: nobody waits for an SPP who could be bound to it.
Refilled(r, w, T) ==
  /\ Sound(w, T, NONE)
  /\ w.name = r.name /\ w.provider = r.provider
  /\ \A o \in Service : Range(w.waiting[o]) \subseteq Range(r.waiting[o])
  /\ Fair(r, w)

LEMMA BindQueuedIs ==
  ASSUME NEW r, NEW T \in SUBSET Sap, NEW p \in Spp, NEW n \in Service, Sound(r, T, n),
         r.name[p] = n, NEW w, w = BindQueued(r, p)
  PROVE  Refilled(r, w, T)
<1> DEFINE l == Len(r.waiting[n])
           c == Cardinality(FreeEnds(r, p))
           turns == Min({l, c})
           f == CHOOSE f : Binding(f, r, p, turns)
<1>1. Shape(r) /\ l \in Nat
  BY DEF Sound, Shape
<1>2. c \in Nat
  BY <1>1, FreeEndsAre
<1>3. turns \in {l, c} /\ turns <= l /\ turns <= c
  <2>1. {l, c} \in SUBSET Nat
    BY <1>1, <1>2
  <2> HIDE DEF l, c
  <2> QED BY <2>1, MinIs
<1>4. w = f[turns]
  BY DEF BindQueued, Binding
<1> HIDE DEF turns
<1>5. turns \in Nat
  BY <1>1, <1>2, <1>3
<1>6. Binding(f, r, p, turns)
  BY <1>5, BindingExists
<1> HIDE DEF f
<1> DEFINE N == {k \in Nat : k <= turns => Served(r, f[k], T, p, n, k)}
<1>7. 0 \in N
  <2>1. f[0] = r
    BY <1>5, <1>6 DEF Binding
  <2> QED BY <2>1, ServedFirst
<1>8. ASSUME NEW k \in N PROVE k + 1 \in N
  <2> SUFFICES ASSUME k + 1 <= turns PROVE Served(r, f[k + 1], T, p, n, k + 1)
    OBVIOUS
  <2>1. k \in Nat /\ k <= turns /\ k + 1 \in 0 .. turns /\ k + 1 # 0 /\ (k + 1) - 1 = k
    BY <1>5
  <2>2. f[k + 1] = BindFirst(f[k], p)
    BY <1>6, <2>1 DEF Binding
  <2>3. k < l /\ k < c
    BY <1>1, <1>2, <1>3, <1>5, <2>1
  <2>4. Served(r, f[k], T, p, n, k)
    BY <2>1
  <2> HIDE DEF N
  <2>5. k < Len(r.waiting[n]) /\ k < Cardinality(FreeEnds(r, p))
    BY <2>3
  <2> QED BY <1>1, <2>1, <2>2, <2>4, <2>5, ServedNext
<1>9. N = Nat
  <2>1. N \in SUBSET Nat
    OBVIOUS
  <2> HIDE DEF N
  <2> QED BY <1>7, <1>8, <2>1, NumberInduction
<1>10. Served(r, w, T, p, n, turns)
  BY <1>4, <1>5, <1>9
<1> HIDE DEF N
<1>11. ASSUME AllFit PROVE NoneIdle(w, NONE)
  <2> SUFFICES ASSUME NEW o \in Service, w.provider[o] # NONE, FreeEnds(w, w.provider[o]) # {}
               PROVE  w.waiting[o] = <<>>
    BY DEF NoneIdle
  <2>1. CASE o # n
    BY <1>10, <1>11, <2>1 DEF Served, Sound, NoneIdle
  <2>2. CASE o = n
    <3>1. Shape(w) /\ w.provider[n] = p
      BY <1>10 DEF Served, Sound, Provided
    <3>2. Cardinality(FreeEnds(w, p)) # 0
      BY <2>2, <3>1, FreeEndsAre
    <3>3. turns # c
      BY <1>2, <1>10, <1>11, <3>2 DEF Served
    <3>4. turns = l
      BY <1>3, <3>3
    <3>5. Len(w.waiting[n]) = 0
      BY <1>1, <1>10, <3>4 DEF Served
    <3>6. w.waiting[n] \in Seq(Sap)
      BY <3>1 DEF Shape
    <3> QED BY <2>2, <3>5, <3>6
  <2> QED BY <2>1, <2>2
<1> QED BY <1>10, <1>11 DEF Served, Sound, Refilled
-----------------------------------------------------------------------------
(* A SAP leaves: deregisterSapPort.                                        *)

\* The first place of a SAP in its queue is its only one.
LEMMA LeaveIs ==
  ASSUME NEW r, Shape(r), NEW n \in Service, IsInjective(r.waiting[n]), NEW s \in Sap,
         s \in Range(r.waiting[n]), NEW w, w = Leave(r, n, s)
  PROVE  /\ Shape(w)
         /\ w.name = r.name /\ w.provider = r.provider /\ w.sapEnd = r.sapEnd
         /\ w.sppEnds = r.sppEnds /\ w.fatal = r.fatal
         /\ \A o \in Service \ {n} : w.waiting[o] = r.waiting[o]
         /\ Range(w.waiting[n]) = Range(r.waiting[n]) \ {s} /\ IsInjective(w.waiting[n])
         /\ Fair(r, w)
<1> DEFINE q == r.waiting[n]
           places == {i \in DOMAIN q : q[i] = s}
           i == Min(places)
<1>1. q \in Seq(Sap) /\ IsInjective(q)
  BY DEF Shape
<1>2. DOMAIN q = 1 .. Len(q) /\ Len(q) \in Nat
  BY <1>1
<1>3. i \in 1 .. Len(q) /\ q[i] = s
  <2>1. places \in SUBSET Nat
    BY <1>2
  <2>2. places # {}
    BY DEF Range
  <2>3. i \in places
    <3> HIDE DEF places
    <3> QED BY <2>1, <2>2, MinIs
  <2> QED BY <1>2, <2>3
<1>4. w = [r EXCEPT !.waiting[n] = RemoveAt(q, i)]
  BY <1>2, <1>3 DEF Leave
<1> HIDE DEF i
<1>5. RemoveAt(q, i) \in Seq(Sap) /\ Range(RemoveAt(q, i)) = Range(q) \ {s}
      /\ IsInjective(RemoveAt(q, i))
  <2> HIDE DEF q
  <2> QED BY <1>1, <1>3, WithoutOne
<1>6. /\ Shape(w)
      /\ w.name = r.name /\ w.provider = r.provider /\ w.sapEnd = r.sapEnd
      /\ w.sppEnds = r.sppEnds /\ w.fatal = r.fatal
      /\ w.waiting[n] = RemoveAt(q, i) /\ \A o \in Service \ {n} : w.waiting[o] = r.waiting[o]
  <2> DEFINE left == RemoveAt(q, i)
  <2>1. left \in Seq(Sap) /\ w = WithQueue(r, n, left)
    BY <1>4, <1>5 DEF WithQueue
  <2> HIDE DEF left, q
  <2>2. /\ Shape(w)
        /\ w.name = r.name /\ w.provider = r.provider /\ w.sapEnd = r.sapEnd
        /\ w.sppEnds = r.sppEnds /\ w.fatal = r.fatal
        /\ w.waiting[n] = left /\ \A o \in Service \ {n} : w.waiting[o] = r.waiting[o]
    BY <2>1, QueueIs
  <2> QED BY <2>2 DEF left
<1>7. Fair(r, w)
  <2>1. w.waiting[n] = RemoveAt(r.waiting[n], i) /\ i \in 1 .. Len(r.waiting[n])
    BY <1>3, <1>6
  <2> HIDE DEF q
  <2> QED BY <1>6, <2>1, FairTakenOut
<1> QED BY <1>5, <1>6, <1>7

\* The far end of an SPP that a SAP is on is the one the SAP knows.
LEMMA UnbindIs ==
  ASSUME NEW r, Shape(r), Mirror(r), NEW s \in Sap, NEW p \in Spp, NEW i \in 1 .. NumFarEnd[p],
         r.sapEnd[s] = EndAt(p, i), NEW w, w = Unbind(r, s, p)
  PROVE  /\ Shape(w)
         /\ w.name = r.name /\ w.provider = r.provider /\ w.waiting = r.waiting
         /\ w.fatal = r.fatal
         /\ NewEnds(r, w, s, p, i, NoEnd, NONE)
<1> DEFINE ends == {j \in DOMAIN r.sppEnds[p] : r.sppEnds[p][j] = s}
<1>1. r.sapEnd[s] # NoEnd
  BY PortAssumption DEF EndAt, NoEnd, Port
<1>2. ends = {i}
  <2>1. DOMAIN r.sppEnds[p] = 1 .. NumFarEnd[p]
    BY DEF Shape
  <2>2. \A j \in 1 .. NumFarEnd[p] : r.sppEnds[p][j] = s <=> j = i
    <3>1. \A j \in 1 .. NumFarEnd[p] : EndAt(p, i) = EndAt(p, j) <=> j = i
      BY DEF EndAt
    <3>2. \A j \in 1 .. NumFarEnd[p] : r.sapEnd[s] = EndAt(p, j) <=> r.sppEnds[p][j] = s
      BY DEF Mirror, EndAt
    <3> QED BY <3>1, <3>2
  <2> QED BY <2>1, <2>2
<1>3. Min(ends) = i
  <2>1. ends \in SUBSET Nat /\ ends # {}
    <3>1. NumFarEnd[p] \in Nat
      BY PortAssumption
    <3>2. i \in Nat
      BY <3>1
    <3> QED BY <1>2, <3>2
  <2>2. Min(ends) \in ends
    <3> HIDE DEF ends
    <3> QED BY <2>1, MinIs
  <2> QED BY <1>2, <2>2
<1>4. w = [r EXCEPT !.sapEnd[s] = NoEnd, !.sppEnds[p][i] = NONE]
  BY <1>1, <1>2, <1>3 DEF Unbind
<1>5. w = Ends(r, s, p, i, NoEnd, NONE)
  BY <1>4 DEF Ends
<1> QED BY <1>5, EndsAre

\* A SAP that neither waits nor is bound need not be looked at.
LEMMA Aside ==
  ASSUME NEW r, NEW T \in SUBSET Sap, NEW m, Sound(r, T, m), NEW s \in Sap,
         NEW U, U = T \cup {s},
         r.sapEnd[s] = NoEnd, \A n \in Service : s \notin Range(r.waiting[n])
  PROVE  Sound(r, U, m)
<1>1. BoundByName(r, U)
  BY DEF Sound, BoundByName
<1>2. WaitsByName(r, U)
  BY DEF Sound, WaitsByName
<1>3. AllFit => Everyone(r, U)
  BY DEF Sound, Everyone
<1> QED BY <1>1, <1>2, <1>3 DEF Sound

\* It may be taken to have no name already.
LEMMA LosesName ==
  ASSUME NEW r, NEW s \in Sap, Sound(r, {s}, NONE), NEW w, w = CompleteDeregistration(r, s)
  PROVE  /\ Sound(w, {}, NONE)
         /\ w.name[s] = NONE /\ \A q \in Port \ {s} : w.name[q] = r.name[q]
         /\ w.provider = r.provider /\ w.waiting = r.waiting /\ Fair(r, w)
<1>1. s \in Port /\ Shape(r)
  BY DEF Port, Sound
<1>2. w = [r EXCEPT !.name[s] = NONE]
  BY DEF CompleteDeregistration
<1>3. /\ Shape(w)
      /\ w.provider = r.provider /\ w.waiting = r.waiting /\ w.sapEnd = r.sapEnd
      /\ w.sppEnds = r.sppEnds /\ w.fatal = r.fatal
      /\ w.name[s] = NONE /\ \A o \in Port \ {s} : w.name[o] = r.name[o]
  <2> DEFINE n == NONE
  <2>1. n \in Service \cup {NONE} /\ w = WithName(r, s, n)
    BY <1>2 DEF WithName
  <2> HIDE DEF n
  <2>2. /\ Shape(w)
        /\ w.provider = r.provider /\ w.waiting = r.waiting /\ w.sapEnd = r.sapEnd
        /\ w.sppEnds = r.sppEnds /\ w.fatal = r.fatal
        /\ w.name[s] = n /\ \A o \in Port \ {s} : w.name[o] = r.name[o]
    BY <1>1, <2>1, NameIs
  <2> QED BY <2>2 DEF n
<1>4. Sound(w, {}, NONE)
  <2> DEFINE T == {}
             U == T \cup {s}
  <2>1. T \in SUBSET Sap /\ U = T \cup {s} /\ Sound(r, U, NONE)
    OBVIOUS
  <2> HIDE DEF U, T
  <2>2. Sound(w, T, NONE)
    BY <1>3, <2>1, Forgotten
  <2> QED BY <2>2 DEF T
<1>5. Fair(r, w)
  <2>1. r.sapEnd[s] = NoEnd
    BY DEF Sound, BoundByName
  <2>2. \A v \in Sap \ {s} : v \in Port \ {s}
    BY DEF Port
  <2>3. \A v \in Sap \ {s} : w.name[v] = r.name[v] /\ (w.sapEnd[v] # NoEnd => r.sapEnd[v] # NoEnd)
    BY <1>3, <2>2
  <2>4. w.waiting = r.waiting /\ w.sapEnd[s] = NoEnd
    BY <1>3, <2>1
  <2> QED BY <2>3, <2>4, FairBound
<1> QED BY <1>3, <1>4, <1>5

\* A port has no name any more, and the others have theirs.
Gone(r, w, q) ==
  /\ Sound(w, {}, NONE)
  /\ w.name[q] = NONE /\ \A o \in Port \ {q} : w.name[o] = r.name[o]
  /\ Fair(r, w)

\* The far end that becomes free goes to the first of those that wait.
LEMMA DeregisterSapIs ==
  ASSUME NEW r, Sound(r, {}, NONE), NEW s \in Sap, NEW w, w = DeregisterSap(r, s)
  PROVE  /\ Gone(r, w, s)
         /\ w.provider = r.provider
         /\ \A o \in Service : Range(w.waiting[o]) \subseteq Range(r.waiting[o])
<1> DEFINE T == {}
           U == T \cup {s}
           n == r.name[s]
           a == Leave(r, n, s)
           e == r.sapEnd[s].port
<1>0. T \in SUBSET Sap /\ U = T \cup {s} /\ U \in SUBSET Sap /\ U = {s}
  OBVIOUS
<1>1. Shape(r) /\ Mirror(r) /\ s \in Port /\ NONE \notin Service /\ NONE \notin Spp
  BY PortAssumption DEF Sound, Port
<1>2. CASE n = NONE
  BY <1>2, FairSame DEF DeregisterSap, Gone
<1>3. CASE n # NONE
  <2>1. n \in Service
    BY <1>1, <1>3 DEF Shape
  <2>2. w = CompleteDeregistration(IF e = NONE THEN a ELSE BindQueued(Unbind(a, s, e), e), s)
    BY <1>3 DEF DeregisterSap
  <2>3. CASE s \in Range(r.waiting[n])
    <3>1. r.sapEnd[s] = NoEnd /\ IsInjective(r.waiting[n])
      BY <2>1, <2>3 DEF Sound, WaitsByName, WaitsOnce
    <3>2. w = CompleteDeregistration(a, s)
      BY <2>2, <3>1 DEF NoEnd
    <3> HIDE DEF T, U, n, a
    <3>3. a = Leave(r, n, s)
      BY DEF a
    <3>4. /\ Shape(a)
          /\ a.name = r.name /\ a.provider = r.provider /\ a.sapEnd = r.sapEnd
          /\ a.sppEnds = r.sppEnds /\ a.fatal = r.fatal
          /\ \A o \in Service \ {n} : a.waiting[o] = r.waiting[o]
          /\ Range(a.waiting[n]) = Range(r.waiting[n]) \ {s} /\ IsInjective(a.waiting[n])
          /\ Fair(r, a)
      BY <1>1, <2>1, <2>3, <3>1, <3>3, LeaveIs
    <3>5. Sound(a, U, NONE)
      <4>1. Sound(r, T, NONE)
        BY DEF T
      <4> QED BY <1>0, <2>1, <2>3, <3>4, <4>1, TakenOut
    <3>6. /\ Sound(w, {}, NONE)
          /\ w.name[s] = NONE /\ \A q \in Port \ {s} : w.name[q] = a.name[q]
          /\ w.provider = a.provider /\ w.waiting = a.waiting /\ Fair(a, w)
      BY <1>0, <3>2, <3>5, LosesName
    <3>7. Fair(r, w)
      <4>1. \A o \in Service : Range(r.waiting[o]) \cap Range(w.waiting[o]) \subseteq Range(a.waiting[o])
        BY <3>6
      <4> QED BY <3>4, <3>6, <4>1, FairThrough
    <3>8. \A o \in Service : Range(w.waiting[o]) \subseteq Range(r.waiting[o])
      BY <3>4, <3>6
    <3> QED BY <3>4, <3>6, <3>7, <3>8 DEF Gone
  <2>4. CASE s \notin Range(r.waiting[n])
    <3>1. a = r
      BY <2>4 DEF Leave, Range
    <3>2. \A o \in Service : s \notin Range(r.waiting[o])
      BY <2>4 DEF Sound, WaitsByName
    <3>3. CASE r.sapEnd[s] = NoEnd
      <4>1. w = CompleteDeregistration(r, s)
        BY <2>2, <3>1, <3>3 DEF NoEnd
      <4>2. Sound(r, U, NONE)
        <5>1. Sound(r, T, NONE)
          OBVIOUS
        <5> HIDE DEF T, U
        <5> QED BY <1>0, <3>2, <3>3, <5>1, Aside
      <4>3. /\ Sound(w, {}, NONE)
            /\ w.name[s] = NONE /\ \A q \in Port \ {s} : w.name[q] = r.name[q]
            /\ w.provider = r.provider /\ w.waiting = r.waiting /\ Fair(r, w)
        BY <1>0, <4>1, <4>2, LosesName
      <4> QED BY <4>3 DEF Gone
    <3>4. CASE r.sapEnd[s] # NoEnd
      <4>1. PICK p \in Spp : \E i \in 1 .. NumFarEnd[p] : r.sapEnd[s] = [port |-> p, index |-> i]
        BY <1>1, <3>4, EndIs
      <4> PICK i \in 1 .. NumFarEnd[p] : r.sapEnd[s] = [port |-> p, index |-> i]
        BY <4>1
      <4>2. e = p /\ e # NONE /\ r.sapEnd[s] = EndAt(p, i)
        BY <1>1 DEF EndAt
      <4> DEFINE v == Unbind(r, s, p)
                 x == BindQueued(v, p)
      <4>3. w = CompleteDeregistration(x, s)
        BY <2>2, <3>1, <4>2
      <4>4. r.provider[n] = p /\ r.name[p] = n
        BY <2>1, <3>4, <4>2 DEF Sound, BoundByName, Provided
      <4> HIDE DEF T, U, n, a, v, x
      <4>5. v = Unbind(r, s, p) /\ x = BindQueued(v, p) /\ n = r.name[s]
        BY DEF v, x, n
      <4>6. /\ Shape(v)
            /\ v.name = r.name /\ v.provider = r.provider /\ v.waiting = r.waiting
            /\ v.fatal = r.fatal
            /\ NewEnds(r, v, s, p, i, NoEnd, NONE)
        BY <1>1, <4>2, <4>5, UnbindIs
      <4>7. Sound(v, U, n)
        <5>1. Sound(r, T, NONE)
          BY DEF T
        <5> QED BY <1>0, <4>2, <4>5, <4>6, <5>1, Unbound
      <4>8. v.name[p] = n
        BY <4>4, <4>6
      <4>9. /\ Sound(x, U, NONE)
            /\ x.name = v.name /\ x.provider = v.provider
            /\ \A o \in Service : Range(x.waiting[o]) \subseteq Range(v.waiting[o])
            /\ Fair(v, x)
        <5>1. Refilled(v, x, U)
          BY <1>0, <2>1, <4>5, <4>7, <4>8, BindQueuedIs
        <5> QED BY <5>1 DEF Refilled
      <4>10. /\ Sound(w, {}, NONE)
             /\ w.name[s] = NONE /\ \A q \in Port \ {s} : w.name[q] = x.name[q]
             /\ w.provider = x.provider /\ w.waiting = x.waiting /\ Fair(x, w)
        BY <1>0, <4>3, <4>9, LosesName
      <4>11. Fair(r, v)
        <5>1. v.sapEnd[s] = NoEnd /\ \A u \in Sap \ {s} : v.sapEnd[u] = r.sapEnd[u]
          BY <4>6 DEF NewEnds
        <5> QED BY <4>6, <5>1, FairBound
      <4>12. \A o \in Service : Range(w.waiting[o]) \subseteq Range(r.waiting[o])
        BY <4>6, <4>9, <4>10
      <4>13. Fair(r, x)
        <5>1. \A o \in Service : Range(r.waiting[o]) \cap Range(x.waiting[o]) \subseteq Range(v.waiting[o])
          BY <4>9
        <5> QED BY <4>9, <4>11, <5>1, FairThrough
      <4>14. Fair(r, w)
        <5>1. \A o \in Service : Range(r.waiting[o]) \cap Range(w.waiting[o]) \subseteq Range(x.waiting[o])
          BY <4>10
        <5> QED BY <4>10, <4>13, <5>1, FairThrough
      <4> QED BY <4>6, <4>9, <4>10, <4>12, <4>14 DEF Gone
    <3> QED BY <3>3, <3>4
  <2> QED BY <2>3, <2>4
<1> QED BY <1>2, <1>3
-----------------------------------------------------------------------------
(* An SPP leaves: deregisterSppPort.                                       *)

\* A SAP that was set aside comes to the end of a queue.
LEMMA EnqueueIs ==
  ASSUME NEW r, NEW s \in Sap, NEW m, NEW U, s \in U, Sound(r, U, m), NEW n \in Service,
         NEW w, w = Enqueue(r, n, s)
  PROVE  /\ Shape(w)
         /\ w.name = r.name /\ w.provider = r.provider /\ w.sapEnd = r.sapEnd
         /\ w.sppEnds = r.sppEnds /\ w.fatal = r.fatal
         /\ w.waiting[n] = Behind(r.waiting[n], s)
         /\ \A o \in Service \ {n} : w.waiting[o] = r.waiting[o]
         /\ r.sapEnd[s] = NoEnd /\ s \notin Range(r.waiting[n])
<1> DEFINE q == Append(r.waiting[n], s)
<1>1. Shape(r) /\ q \in Seq(Sap)
  <2>1. Shape(r) /\ r.waiting[n] \in Seq(Sap)
    BY DEF Sound, Shape
  <2> QED BY <2>1, AppendProperties
<1>2. w = WithQueue(r, n, q)
  BY DEF Enqueue, WithQueue
<1> HIDE DEF q
<1>3. /\ Shape(w)
      /\ w.name = r.name /\ w.provider = r.provider /\ w.sapEnd = r.sapEnd
      /\ w.sppEnds = r.sppEnds /\ w.fatal = r.fatal
      /\ w.waiting[n] = q /\ \A o \in Service \ {n} : w.waiting[o] = r.waiting[o]
  BY <1>1, <1>2, QueueIs
<1>4. r.sapEnd[s] = NoEnd /\ s \notin Range(r.waiting[n])
  BY DEF Sound, BoundByName, WaitsByName
<1> QED BY <1>3, <1>4 DEF q, Behind

\* Only the SPP of n may have far ends for those that wait.
LEMMA SoundLater ==
  ASSUME NEW r, NEW T, Sound(r, T, NONE), NEW n
  PROVE  Sound(r, T, n)
<1>1. NONE \notin Service
  BY PortAssumption
<1>2. NoneIdle(r, NONE) => NoneIdle(r, n)
  BY <1>1 DEF NoneIdle
<1> QED BY <1>2 DEF Sound

\* What one turn of the loop makes of the registry.
Released(r, w, p, i, n) ==
  /\ Sound(w, {}, n) /\ w.name = r.name /\ w.provider = r.provider
  /\ w.sppEnds[p][i] = NONE
  /\ \A j \in 1 .. NumFarEnd[p] : r.sppEnds[p][j] = NONE => w.sppEnds[p][j] = NONE
  /\ \A o \in Service : Range(r.waiting[o]) \subseteq Range(w.waiting[o])
  /\ Fair(r, w)

LEMMA ReleaseIs ==
  ASSUME NEW r, NEW n \in Service, Sound(r, {}, n), NEW p \in Spp, r.name[p] = n,
         NEW i \in 1 .. NumFarEnd[p], NEW w, w = Release(r, p, i)
  PROVE  Released(r, w, p, i, n)
<1> DEFINE s == r.sppEnds[p][i]
           T == {}
           U == T \cup {s}
           v == Unbind(r, s, p)
<1>1. Shape(r) /\ Mirror(r) /\ Sound(r, T, n)
  BY DEF Sound
<1>2. s \in Sap \cup {NONE}
  BY <1>1 DEF Shape
<1>3. CASE s = NONE
  BY <1>3, FairSame DEF Release, Released
<1>4. CASE s # NONE
  <2>1. s \in Sap /\ T \in SUBSET Sap /\ U = T \cup {s} /\ U \in SUBSET Sap /\ U = {s}
    BY <1>2, <1>4
  <2>2. r.sapEnd[s] = EndAt(p, i)
    BY <1>1, <2>1 DEF Mirror, EndAt
  <2>3. r.name[s] = n
    <3>1. r.sapEnd[s] # NoEnd /\ r.sapEnd[s].port = p
      BY <2>2, PortAssumption DEF EndAt, NoEnd, Port
    <3> QED BY <2>1, <3>1 DEF Sound, BoundByName, Provided
  <2>4. w = Enqueue(v, n, s) /\ v = Unbind(r, s, p)
    BY <1>4 DEF Release
  <2> HIDE DEF s, T, U, v
  <2>5. /\ Shape(v)
        /\ v.name = r.name /\ v.provider = r.provider /\ v.waiting = r.waiting
        /\ v.fatal = r.fatal
        /\ NewEnds(r, v, s, p, i, NoEnd, NONE)
    BY <1>1, <2>1, <2>2, <2>4, UnbindIs
  <2>6. Sound(v, U, n)
    <3>1. n = r.name[s] /\ n \in {NONE, r.name[s]}
      BY <2>3
    <3> QED BY <1>1, <2>1, <2>2, <2>5, <3>1, Unbound
  <2>7. /\ Shape(w)
        /\ w.name = v.name /\ w.provider = v.provider /\ w.sapEnd = v.sapEnd
        /\ w.sppEnds = v.sppEnds /\ w.fatal = v.fatal
        /\ w.waiting[n] = Behind(v.waiting[n], s)
        /\ \A o \in Service \ {n} : w.waiting[o] = v.waiting[o]
        /\ v.sapEnd[s] = NoEnd /\ s \notin Range(v.waiting[n])
    <3>1. s \in U /\ w = Enqueue(v, n, s)
      BY <2>1, <2>4
    <3> QED BY <2>1, <2>6, <3>1, EnqueueIs
  <2>8. Sound(w, T, n)
    <3>1. s \notin T
      BY DEF T
    <3>2. w.name[s] = n /\ \A q \in Port \ {s} : w.name[q] = v.name[q]
      BY <2>3, <2>5, <2>7
    <3> QED BY <2>1, <2>6, <2>7, <3>1, <3>2, QueuedUp
  <2>9. Fair(r, v)
    <3>1. v.sapEnd[s] = NoEnd /\ \A u \in Sap \ {s} : v.sapEnd[u] = r.sapEnd[u]
      BY <2>5 DEF NewEnds
    <3> QED BY <2>1, <2>5, <3>1, FairBound
  <2>10. Fair(v, w)
    <3>1. \A u \in Sap \ {s} : w.name[u] = v.name[u]
      BY <2>7
    <3> QED BY <2>1, <2>5, <2>7, <3>1, FairQueuedUp
  <2>11. \A o \in Service : Range(r.waiting[o]) \subseteq Range(w.waiting[o])
    <3>1. Range(v.waiting[n]) \subseteq Range(w.waiting[n])
      <4>1. v.waiting[n] \in Seq(Sap)
        BY <2>5 DEF Shape
      <4> DEFINE q == v.waiting[n]
      <4>2. w.waiting[n] = Append(q, s) /\ q \in Seq(Sap)
        BY <2>7, <4>1 DEF Behind
      <4> HIDE DEF q
      <4>3. DOMAIN q = 1 .. Len(q) /\ Len(q) \in Nat /\ DOMAIN Append(q, s) = 1 .. Len(q) + 1
            /\ \A j \in 1 .. Len(q) : Append(q, s)[j] = q[j]
        BY <2>1, <4>2, AppendProperties
      <4>4. \A j \in 1 .. Len(q) : j \in 1 .. Len(q) + 1
        BY <4>3
      <4> QED BY <4>2, <4>3, <4>4 DEF Range, q
    <3> QED BY <2>5, <2>7, <3>1
  <2>12. Fair(r, w)
    <3>1. \A o \in Service : Range(r.waiting[o]) \cap Range(w.waiting[o]) \subseteq Range(v.waiting[o])
      BY <2>5
    <3> QED BY <2>9, <2>10, <3>1, FairThrough
  <2>13. /\ w.sppEnds[p][i] = NONE
         /\ \A j \in 1 .. NumFarEnd[p] : r.sppEnds[p][j] = NONE => w.sppEnds[p][j] = NONE
    BY <2>5, <2>7 DEF NewEnds
  <2> QED BY <2>5, <2>7, <2>8, <2>11, <2>12, <2>13 DEF Released, T
<1> QED BY <1>3, <1>4

\* The recursion of DeregisterSpp.
Releasing(f, r, p, n) == f = [k \in 0 .. n |-> IF k = 0 THEN r ELSE Release(f[k - 1], p, k)]

LEMMA ReleasingExists ==
  ASSUME NEW r, NEW p, NEW n \in Nat
  PROVE  \E f : Releasing(f, r, p, n)
<1> DEFINE T == {k \in Nat : \E f : Releasing(f, r, p, k)}
<1>1. 0 \in T
  <2>1. Releasing([i \in 0 .. 0 |-> r], r, p, 0)
    BY DEF Releasing
  <2> QED BY <2>1
<1>2. ASSUME NEW k \in T PROVE k + 1 \in T
  <2>1. PICK f : Releasing(f, r, p, k)
    BY <1>2
  <2> DEFINE last == Release(f[k], p, k + 1)
             g == [i \in 0 .. k + 1 |-> IF i \in 0 .. k THEN f[i] ELSE last]
  <2>2. ASSUME NEW i \in 0 .. k + 1
        PROVE  g[i] = IF i = 0 THEN r ELSE Release(g[i - 1], p, i)
    <3>1. CASE i = 0
      BY <2>1, <3>1 DEF Releasing
    <3>2. CASE i \in 1 .. k
      <4>1. g[i] = f[i] /\ g[i - 1] = f[i - 1] /\ i \in 0 .. k /\ i # 0
        BY <3>2
      <4> HIDE DEF g
      <4> QED BY <2>1, <4>1 DEF Releasing
    <3>3. CASE i = k + 1
      <4>1. g[i] = last /\ g[i - 1] = f[k]
        BY <3>3
      <4> QED BY <3>3, <4>1
    <3> QED BY <3>1, <3>2, <3>3
  <2>3. \E h : Releasing(h, r, p, k + 1)
    <3>1. Releasing(g, r, p, k + 1)
      BY <2>2 DEF Releasing
    <3> QED BY <3>1
  <2> QED BY <2>3
<1>3. T = Nat
  <2>1. T \in SUBSET Nat
    OBVIOUS
  <2> HIDE DEF T
  <2> QED BY <1>1, <1>2, <2>1, NumberInduction
<1> QED BY <1>3

\* What k turns have made of the registry r.
Emptied(r, x, p, n, k) ==
  /\ Sound(x, {}, n) /\ x.name = r.name /\ x.provider = r.provider
  /\ \A j \in 1 .. k : x.sppEnds[p][j] = NONE
  /\ \A o \in Service : Range(r.waiting[o]) \subseteq Range(x.waiting[o])
  /\ Fair(r, x)

LEMMA EmptiedNext ==
  ASSUME NEW r, NEW x, NEW p \in Spp, NEW n \in Service, NEW k \in Nat,
         Emptied(r, x, p, n, k), r.name[p] = n, k + 1 \in 1 .. NumFarEnd[p],
         NEW w, w = Release(x, p, k + 1)
  PROVE  Emptied(r, w, p, n, k + 1)
<1>1. Sound(x, {}, n) /\ x.name[p] = n
  BY DEF Emptied
<1>2. PICK i \in 1 .. NumFarEnd[p] : i = k + 1
  OBVIOUS
<1>3. Released(x, w, p, i, n)
  BY <1>1, <1>2, ReleaseIs
<1>4. \A j \in 1 .. k + 1 : w.sppEnds[p][j] = NONE
  <2>1. \A j \in 1 .. k + 1 : j \in 1 .. NumFarEnd[p] /\ (j \in 1 .. k \/ j = i)
    BY <1>2, PortAssumption
  <2> QED BY <1>3, <2>1 DEF Emptied, Released
<1>5. Fair(r, w)
  <2>1. Fair(r, x) /\ Fair(x, w)
    BY <1>3 DEF Emptied, Released
  <2>2. \A o \in Service : Range(r.waiting[o]) \cap Range(w.waiting[o]) \subseteq Range(x.waiting[o])
    BY DEF Emptied
  <2> QED BY <2>1, <2>2, FairThrough
<1>6. \A o \in Service : Range(r.waiting[o]) \subseteq Range(w.waiting[o])
  BY <1>3 DEF Emptied, Released
<1> QED BY <1>3, <1>4, <1>5, <1>6 DEF Emptied, Released

\* Those that were bound wait for the next SPP of the service.
LEMMA DeregisterSppIs ==
  ASSUME NEW r, Sound(r, {}, NONE), NEW p \in Spp, NEW w, w = DeregisterSpp(r, p)
  PROVE  /\ Gone(r, w, p)
         /\ \A o \in Service : w.provider[o] \in {r.provider[o], NONE}
         /\ \A o \in Service : Range(r.waiting[o]) \subseteq Range(w.waiting[o])
<1> DEFINE n == r.name[p]
           k == NumFarEnd[p]
           f == CHOOSE f : Releasing(f, r, p, k)
           x == f[k]
<1>1. Shape(r) /\ p \in Port /\ NONE \notin Service /\ NONE \notin Spp /\ k \in Nat
  BY PortAssumption DEF Sound, Port
<1>2. CASE n = NONE
  BY <1>2, FairSame DEF DeregisterSpp, Gone
<1>3. CASE n # NONE
  <2>1. n \in Service
    BY <1>1, <1>3 DEF Shape
  <2> DEFINE y == WithProvider(x, n, NONE)
  <2>2. w = WithName(y, p, NONE)
    BY <1>3 DEF DeregisterSpp, Releasing, CompleteDeregistration, WithProvider, WithName
  <2>3. Releasing(f, r, p, k)
    BY <1>1, ReleasingExists
  <2> HIDE DEF f
  <2> DEFINE N == {i \in Nat : i <= k => Emptied(r, f[i], p, n, i)}
  <2>4. 0 \in N
    <3>1. f[0] = r
      BY <1>1, <2>3 DEF Releasing
    <3>2. Sound(r, {}, n)
      BY SoundLater
    <3>3. Emptied(r, r, p, n, 0)
      BY <3>2, FairSame DEF Emptied
    <3> QED BY <3>1, <3>3
  <2>5. ASSUME NEW i \in N PROVE i + 1 \in N
    <3> SUFFICES ASSUME i + 1 <= k PROVE Emptied(r, f[i + 1], p, n, i + 1)
      OBVIOUS
    <3>1. i \in Nat /\ i <= k /\ i + 1 \in 0 .. k /\ i + 1 # 0 /\ (i + 1) - 1 = i
          /\ i + 1 \in 1 .. NumFarEnd[p]
      BY <1>1
    <3>2. f[i + 1] = Release(f[i], p, i + 1)
      BY <2>3, <3>1 DEF Releasing
    <3>3. Emptied(r, f[i], p, n, i)
      BY <3>1
    <3>4. r.name[p] = n
      OBVIOUS
    <3> HIDE DEF N, n, k
    <3> QED BY <2>1, <3>1, <3>2, <3>3, <3>4, EmptiedNext
  <2>6. N = Nat
    <3>1. N \in SUBSET Nat
      OBVIOUS
    <3> HIDE DEF N
    <3> QED BY <2>4, <2>5, <3>1, NumberInduction
  <2>7. Emptied(r, x, p, n, k)
    BY <1>1, <2>6
  <2> HIDE DEF N, x
  <2>8. /\ Shape(y)
        /\ y.name = x.name /\ y.waiting = x.waiting /\ y.sapEnd = x.sapEnd
        /\ y.sppEnds = x.sppEnds /\ y.fatal = x.fatal
        /\ y.provider[n] = NONE /\ \A o \in Service \ {n} : y.provider[o] = x.provider[o]
    <3>1. Shape(x) /\ NONE \in Spp \cup {NONE}
      BY <2>7 DEF Emptied, Sound
    <3> HIDE DEF n
    <3> QED BY <2>1, <3>1, ProviderIs
  <2>9. /\ Shape(w)
        /\ w.provider = y.provider /\ w.waiting = y.waiting /\ w.sapEnd = y.sapEnd
        /\ w.sppEnds = y.sppEnds /\ w.fatal = y.fatal
        /\ w.name[p] = NONE /\ \A o \in Port \ {p} : w.name[o] = y.name[o]
    <3>1. NONE \in Service \cup {NONE}
      OBVIOUS
    <3> HIDE DEF y
    <3> QED BY <1>1, <2>2, <2>8, <3>1, NameIs
  <2>10. Sound(w, {}, NONE)
    <3> DEFINE T == {}
    <3>1. T \in SUBSET Sap /\ Sound(x, T, n)
      BY <2>7 DEF Emptied
    <3>2. x.name[p] = n /\ \A i \in 1 .. NumFarEnd[p] : x.sppEnds[p][i] = NONE
      BY <2>7 DEF Emptied
    <3>3. w.provider[n] = NONE /\ \A o \in Service \ {n} : w.provider[o] = x.provider[o]
      BY <2>8, <2>9
    <3>4. /\ w.sapEnd = x.sapEnd /\ w.sppEnds = x.sppEnds /\ w.waiting = x.waiting
          /\ w.fatal = x.fatal /\ w.name[p] = NONE
          /\ \A q \in Port \ {p} : w.name[q] = x.name[q]
      BY <2>8, <2>9
    <3> HIDE DEF T, n, y
    <3>5. Sound(w, T, IF w.provider[n] = NONE THEN NONE ELSE n)
      BY <2>1, <2>9, <3>1, <3>2, <3>3, <3>4, Provides
    <3> QED BY <3>3, <3>5 DEF T
  <2>11. Fair(r, w)
    <3>1. \A s \in Sap : s \in Port \ {p}
      BY PortAssumption DEF Port
    <3>2. Fair(x, w)
      BY <2>8, <2>9, <3>1 DEF Fair, IsBound
    <3>3. Fair(r, x) /\ w.waiting = x.waiting
      BY <2>7, <2>8, <2>9 DEF Emptied
    <3> QED BY <3>2, <3>3, FairThrough
  <2>12. \A o \in Port \ {p} : w.name[o] = r.name[o]
    BY <2>7, <2>8, <2>9 DEF Emptied
  <2>13. \A o \in Service : w.provider[o] \in {r.provider[o], NONE}
    BY <2>7, <2>8, <2>9 DEF Emptied
  <2>14. \A o \in Service : Range(r.waiting[o]) \subseteq Range(w.waiting[o])
    BY <2>7, <2>8, <2>9 DEF Emptied
  <2> QED BY <2>9, <2>10, <2>11, <2>12, <2>13, <2>14 DEF Gone
<1> QED BY <1>2, <1>3
-----------------------------------------------------------------------------
(* Ports come: registerSapPort and registerSppPort.                        *)

\* What an operation on a port makes of the registry.
Handled(r, w, port) ==
  /\ Sound(w, {}, NONE)
  /\ \A o \in Port \ {port} : w.name[o] = r.name[o]
  /\ AllFit => Fair(r, w)

LEMMA HandledGone == ASSUME NEW r, NEW w, NEW q, Gone(r, w, q) PROVE Handled(r, w, q)
BY DEF Gone, Handled

LEMMA HandledSame == ASSUME NEW r, Sound(r, {}, NONE), NEW q PROVE Handled(r, r, q)
BY FairSame DEF Handled

\* A SAP without a name is entered under n.
Entered(a, w, s, n) ==
  /\ Handled(a, w, s)
  /\ \A o \in Service \ {n} : Range(w.waiting[o]) \subseteq Range(a.waiting[o])
  /\ Range(w.waiting[n]) \subseteq Range(a.waiting[n]) \cup {s}

\* It is bound, if it fits and there is a far end.
LEMMA EnteredBound ==
  ASSUME NEW a, Sound(a, {}, NONE), NEW s \in Sap, a.name[s] = NONE, NEW n \in Service,
         NEW p \in Spp, a.provider[n] = p, <<s, p>> \in Complementary, FreeEnds(a, p) # {},
         NEW b, b = Bind(a, s, p), NEW w, w = WithName(b, s, n)
  PROVE  Entered(a, w, s, n) /\ b.sapEnd[s] # NoEnd /\ b.name = a.name
<1> DEFINE T == {}
           U == T \cup {s}
<1>1. /\ T \in SUBSET Sap /\ U = T \cup {s} /\ U \in SUBSET Sap /\ s \notin T /\ s \in U
      /\ Sound(a, T, NONE)
  OBVIOUS
<1>2. Shape(a) /\ s \in Port /\ NONE \notin Service
  BY PortAssumption DEF Sound, Port
<1>3. a.sapEnd[s] = NoEnd /\ \A o \in Service : s \notin Range(a.waiting[o])
  BY <1>2 DEF Sound, BoundByName, WaitsByName
<1>4. n \in Service \cup {NONE}
  OBVIOUS
<1> HIDE DEF T, U
<1>5. Sound(a, U, NONE)
  BY <1>1, <1>3, Aside
<1>6. PICK i : i = Min(FreeEnds(a, p))
  OBVIOUS
<1>7. /\ i \in 1 .. NumFarEnd[p] /\ a.sppEnds[p][i] = NONE
      /\ Shape(b)
      /\ b.name = a.name /\ b.provider = a.provider /\ b.waiting = a.waiting
      /\ b.fatal = a.fatal
      /\ NewEnds(a, b, s, p, i, EndAt(p, i), s)
  BY <1>2, <1>3, <1>6, BindIs
<1>8. b.sapEnd[s] # NoEnd
  BY <1>7, PortAssumption DEF NewEnds, EndAt, NoEnd, Port
<1>9. /\ Shape(w)
      /\ w.provider = b.provider /\ w.waiting = b.waiting /\ w.sapEnd = b.sapEnd
      /\ w.sppEnds = b.sppEnds /\ w.fatal = b.fatal
      /\ w.name[s] = n /\ \A o \in Port \ {s} : w.name[o] = b.name[o]
  <2>1. Shape(b) /\ s \in Port
    BY <1>2, <1>7
  <2> QED BY <1>4, <2>1, NameIs
<1>10. NewEnds(a, w, s, p, i, EndAt(p, i), s)
  BY <1>7, <1>9 DEF NewEnds
<1>11. /\ w.provider = a.provider /\ w.waiting = a.waiting /\ w.fatal = a.fatal
       /\ \A o \in Port \ {s} : w.name[o] = a.name[o]
  BY <1>7, <1>9
<1>12. Sound(w, T, NONE)
  BY <1>1, <1>5, <1>7, <1>9, <1>10, <1>11, BoundThere
<1>13. ASSUME AllFit PROVE Fair(a, w)
  <2>1. a.waiting[n] = <<>>
    <3>1. p # NONE /\ n # NONE
      BY PortAssumption DEF Port
    <3> QED BY <1>13, <3>1 DEF Sound, NoneIdle
  <2>2. Range(a.waiting[w.name[s]]) = {}
    BY <1>9, <2>1 DEF Range
  <2>3. \A v \in Sap \ {s} : v \in Port \ {s}
    BY DEF Port
  <2>4. \A v \in Sap \ {s} :
          w.name[v] = a.name[v] /\ (w.sapEnd[v] # NoEnd => a.sapEnd[v] # NoEnd)
    BY <1>10, <1>11, <2>3 DEF NewEnds
  <2> QED BY <1>11, <2>2, <2>4, FairBound
<1> QED BY <1>7, <1>8, <1>11, <1>12, <1>13 DEF Handled, Entered, T

\* Otherwise it comes to the end of the queue.
LEMMA EnteredWaits ==
  ASSUME NEW a, Sound(a, {}, NONE), NEW s \in Sap, a.name[s] = NONE, NEW n \in Service,
         a.provider[n] = NONE \/ FreeEnds(a, a.provider[n]) = {} \/ ~ AllFit,
         NEW c, c = Enqueue(a, n, s), NEW w, w = WithName(c, s, n)
  PROVE  Entered(a, w, s, n) /\ c.name = a.name
<1> DEFINE T == {}
           U == T \cup {s}
<1>1. /\ T \in SUBSET Sap /\ U = T \cup {s} /\ U \in SUBSET Sap /\ s \notin T /\ s \in U
      /\ Sound(a, T, NONE)
  OBVIOUS
<1>2. Shape(a) /\ s \in Port /\ NONE \notin Service
  BY PortAssumption DEF Sound, Port
<1>3. a.sapEnd[s] = NoEnd /\ \A o \in Service : s \notin Range(a.waiting[o])
  BY <1>2 DEF Sound, BoundByName, WaitsByName
<1>4. n \in Service \cup {NONE}
  OBVIOUS
<1> HIDE DEF T, U
<1>5. Sound(a, U, NONE)
  BY <1>1, <1>3, Aside
<1>6. /\ Shape(c)
      /\ c.name = a.name /\ c.provider = a.provider /\ c.sapEnd = a.sapEnd
      /\ c.sppEnds = a.sppEnds /\ c.fatal = a.fatal
      /\ c.waiting[n] = Behind(a.waiting[n], s)
      /\ \A o \in Service \ {n} : c.waiting[o] = a.waiting[o]
      /\ a.sapEnd[s] = NoEnd /\ s \notin Range(a.waiting[n])
  BY <1>1, <1>5, EnqueueIs
<1>7. /\ Shape(w)
      /\ w.provider = c.provider /\ w.waiting = c.waiting /\ w.sapEnd = c.sapEnd
      /\ w.sppEnds = c.sppEnds /\ w.fatal = c.fatal
      /\ w.name[s] = n /\ \A o \in Port \ {s} : w.name[o] = c.name[o]
  <2>1. Shape(c) /\ s \in Port
    BY <1>2, <1>6
  <2> QED BY <1>4, <2>1, NameIs
<1>8. /\ w.provider = a.provider /\ w.sapEnd = a.sapEnd /\ w.sppEnds = a.sppEnds
      /\ w.fatal = a.fatal
      /\ w.waiting[n] = Behind(a.waiting[n], s)
      /\ \A o \in Service \ {n} : w.waiting[o] = a.waiting[o]
      /\ \A o \in Port \ {s} : w.name[o] = a.name[o]
  BY <1>6, <1>7
<1>9. n = NONE \/ a.provider[n] = NONE \/ FreeEnds(a, a.provider[n]) = {} \/ ~ AllFit
  OBVIOUS
<1>10. Sound(w, T, NONE)
  BY <1>1, <1>5, <1>7, <1>8, <1>9, QueuedUp
<1>11. Fair(a, w)
  <2>1. \A v \in Sap \ {s} : v \in Port \ {s}
    BY DEF Port
  <2>2. \A v \in Sap \ {s} : w.name[v] = a.name[v]
    BY <1>8, <2>1
  <2> QED BY <1>2, <1>6, <1>8, <2>2, FairQueuedUp
<1>12. Range(w.waiting[n]) \subseteq Range(a.waiting[n]) \cup {s}
  <2> DEFINE q == a.waiting[n]
  <2>1. q \in Seq(Sap) /\ w.waiting[n] = Append(q, s)
    BY <1>2, <1>8 DEF Shape, Behind
  <2> HIDE DEF q
  <2>2. DOMAIN q = 1 .. Len(q) /\ Len(q) \in Nat /\ DOMAIN Append(q, s) = 1 .. Len(q) + 1
        /\ Append(q, s)[Len(q) + 1] = s /\ \A j \in 1 .. Len(q) : Append(q, s)[j] = q[j]
    BY <2>1, AppendProperties
  <2>3. \A j \in 1 .. Len(q) + 1 : j \in 1 .. Len(q) \/ j = Len(q) + 1
    BY <2>2
  <2> QED BY <2>1, <2>2, <2>3 DEF Range, q
<1> QED BY <1>6, <1>8, <1>10, <1>11, <1>12 DEF Handled, Entered, T

LEMMA RegisterSapIs ==
  ASSUME NEW r, Sound(r, {}, NONE), NEW s \in Sap, NEW n \in Service
  PROVE  Handled(r, RegisterSap(r, s, n), s)
<1> DEFINE w == RegisterSap(r, s, n)
           a == DeregisterSap(r, s)
           p == a.provider[n]
           b == IF p = NONE THEN a ELSE Bind(a, s, p)
           c == IF b.sapEnd[s] = NoEnd THEN Enqueue(b, n, s) ELSE b
<1>1. CASE r.name[s] = n
  BY <1>1, HandledSame DEF RegisterSap
<1>2. CASE r.name[s] # n
  <2>1. w = IF c.name[s] # NONE THEN [c EXCEPT !.fatal = TRUE] ELSE WithName(c, s, n)
    BY <1>2 DEF RegisterSap, CompleteRegistration, WithName
  <2>2. Gone(r, a, s) /\ \A o \in Service : Range(a.waiting[o]) \subseteq Range(r.waiting[o])
    BY DeregisterSapIs
  <2> HIDE DEF a, w
  <2>3. Sound(a, {}, NONE) /\ a.name[s] = NONE
    BY <2>2 DEF Gone
  <2>4. a.sapEnd[s] = NoEnd /\ NONE \notin Spp /\ p \in Spp \cup {NONE}
    BY <2>3, PortAssumption DEF Sound, BoundByName, Port, Shape
  <2>5. Entered(a, w, s, n)
    <3>1. CASE p \in Spp /\ <<s, p>> \in Complementary /\ FreeEnds(a, p) # {}
      <4>1. b = Bind(a, s, p) /\ a.provider[n] = p /\ p \in Spp
        BY <2>4, <3>1
      <4> DEFINE v == WithName(b, s, n)
      <4> HIDE DEF p, b, v
      <4>2. v = WithName(b, s, n) /\ <<s, p>> \in Complementary /\ FreeEnds(a, p) # {}
        BY <3>1 DEF v
      <4>3. Entered(a, v, s, n) /\ b.sapEnd[s] # NoEnd /\ b.name = a.name
        BY <2>3, <4>1, <4>2, EnteredBound
      <4>4. w = v
        BY <2>1, <2>3, <4>2, <4>3
      <4> QED BY <4>3, <4>4
    <3>2. CASE ~ (p \in Spp /\ <<s, p>> \in Complementary /\ FreeEnds(a, p) # {})
      <4>1. b = a
        BY <2>4, <3>2, BindNot
      <4>2. c = Enqueue(a, n, s)
        BY <2>4, <4>1
      <4>3. a.provider[n] = NONE \/ FreeEnds(a, a.provider[n]) = {} \/ ~ AllFit
        BY <2>4, <3>2 DEF AllFit
      <4> DEFINE v == WithName(c, s, n)
      <4> HIDE DEF p, b, c, v
      <4>4. v = WithName(c, s, n)
        BY DEF v
      <4>5. Entered(a, v, s, n) /\ c.name = a.name
        BY <2>3, <4>2, <4>3, <4>4, EnteredWaits
      <4>6. w = v
        BY <2>1, <2>3, <4>4, <4>5
      <4> QED BY <4>5, <4>6
    <3> QED BY <3>1, <3>2
  <2>6. s \notin Range(r.waiting[n])
    BY <1>2 DEF Sound, WaitsByName
  <2>7. \A o \in Service : Range(r.waiting[o]) \cap Range(w.waiting[o]) \subseteq Range(a.waiting[o])
    BY <2>5, <2>6 DEF Entered
  <2>8. ASSUME AllFit PROVE Fair(r, w)
    <3>1. Fair(r, a) /\ Fair(a, w)
      BY <2>2, <2>5, <2>8 DEF Gone, Entered, Handled
    <3> QED BY <2>7, <3>1, FairThrough
  <2>9. Handled(r, w, s)
    BY <2>2, <2>5, <2>8 DEF Gone, Entered, Handled
  <2> QED BY <2>9 DEF w
<1> QED BY <1>1, <1>2

LEMMA RegisterSppIs ==
  ASSUME NEW r, Sound(r, {}, NONE), NEW p \in Spp, NEW n \in Service,
         NEW w, w = RegisterSpp(r, p, n)
  PROVE  Handled(r, w, p)
<1> DEFINE x == DeregisterSpp(r, p)
           a == CompleteRegistration(x, p, n)
           y == WithProvider(a, n, p)
<1>1. CASE r.provider[n] # NONE
  BY <1>1, HandledSame DEF RegisterSpp
<1>2. CASE r.provider[n] = NONE
  <2>1. w = BindQueued(y, p) /\ x = DeregisterSpp(r, p)
    BY <1>2 DEF RegisterSpp, WithProvider
  <2>2. a = IF x.name[p] # NONE THEN [x EXCEPT !.fatal = TRUE] ELSE WithName(x, p, n)
    BY DEF CompleteRegistration, WithName
  <2>3. y = WithProvider(a, n, p)
    OBVIOUS
  <2> HIDE DEF x, a, y
  <2>4. /\ Gone(r, x, p)
        /\ \A o \in Service : x.provider[o] \in {r.provider[o], NONE}
        /\ \A o \in Service : Range(r.waiting[o]) \subseteq Range(x.waiting[o])
    BY <2>1, DeregisterSppIs
  <2>5. Sound(x, {}, NONE) /\ Shape(x) /\ x.name[p] = NONE /\ x.provider[n] = NONE /\ p \in Port
    BY <1>2, <2>4 DEF Gone, Sound, Port
  <2>6. a = WithName(x, p, n) /\ n \in Service \cup {NONE} /\ p \in Spp \cup {NONE}
    BY <2>2, <2>5
  <2>7. /\ Shape(a)
        /\ a.provider = x.provider /\ a.waiting = x.waiting /\ a.sapEnd = x.sapEnd
        /\ a.sppEnds = x.sppEnds /\ a.fatal = x.fatal
        /\ a.name[p] = n /\ \A o \in Port \ {p} : a.name[o] = x.name[o]
    BY <2>5, <2>6, NameIs
  <2>8. /\ Shape(y)
        /\ y.name = a.name /\ y.waiting = a.waiting /\ y.sapEnd = a.sapEnd
        /\ y.sppEnds = a.sppEnds /\ y.fatal = a.fatal
        /\ y.provider[n] = p /\ \A o \in Service \ {n} : y.provider[o] = a.provider[o]
    BY <2>3, <2>6, <2>7, ProviderIs
  <2>9. Sound(y, {}, n)
    <3> DEFINE T == {}
               m == NONE
    <3>1. T \in SUBSET Sap /\ Sound(x, T, m) /\ m \in {n, NONE} /\ p # NONE
      BY <2>5, PortAssumption DEF Port
    <3>2. /\ y.sapEnd = x.sapEnd /\ y.sppEnds = x.sppEnds /\ y.waiting = x.waiting
          /\ y.fatal = x.fatal
          /\ \A q \in Port \ {p} : y.name[q] = x.name[q]
          /\ \A o \in Service \ {n} : y.provider[o] = x.provider[o]
          /\ x.provider[n] = NONE /\ x.name[p] = NONE /\ y.provider[n] = p /\ y.name[p] = n
      BY <2>5, <2>7, <2>8
    <3> HIDE DEF T, m
    <3>3. Sound(y, T, IF y.provider[n] = NONE THEN NONE ELSE n)
      BY <2>8, <3>1, <3>2, Provides
    <3>4. Sound(y, T, n)
      BY <3>1, <3>2, <3>3
    <3> QED BY <3>4 DEF T
  <2>10. y.name[p] = n
    BY <2>7, <2>8
  <2>11. /\ Sound(w, {}, NONE)
         /\ w.name = y.name
         /\ \A o \in Service : Range(w.waiting[o]) \subseteq Range(y.waiting[o])
         /\ Fair(y, w)
    <3> DEFINE T == {}
    <3>1. T \in SUBSET Sap /\ Sound(y, T, n) /\ w = BindQueued(y, p)
      BY <2>1, <2>9
    <3> HIDE DEF T
    <3>2. Refilled(y, w, T)
      BY <2>10, <3>1, BindQueuedIs
    <3> QED BY <3>2 DEF T, Refilled
  <2>12. Fair(r, y)
    <3>1. \A s \in Sap : s \in Port \ {p}
      BY PortAssumption DEF Port
    <3>2. y.waiting = x.waiting /\ y.sapEnd = x.sapEnd /\ \A s \in Sap : y.name[s] = x.name[s]
      BY <2>7, <2>8, <3>1
    <3>3. Fair(x, y)
      BY <3>2 DEF Fair, IsBound
    <3>4. \A o \in Service : Range(r.waiting[o]) \cap Range(y.waiting[o]) \subseteq Range(x.waiting[o])
      BY <2>4
    <3>5. Fair(r, x)
      BY <2>4 DEF Gone
    <3> QED BY <3>3, <3>4, <3>5, FairThrough
  <2>13. Fair(r, w)
    <3>1. \A o \in Service : Range(r.waiting[o]) \cap Range(w.waiting[o]) \subseteq Range(y.waiting[o])
      BY <2>11
    <3> QED BY <2>11, <2>12, <3>1, FairThrough
  <2>14. \A o \in Port \ {p} : w.name[o] = r.name[o]
    BY <2>4, <2>7, <2>8, <2>11 DEF Gone
  <2> QED BY <2>11, <2>13, <2>14 DEF Handled
<1> QED BY <1>1, <1>2

LEMMA RegisterIs ==
  ASSUME NEW r, Sound(r, {}, NONE), NEW port \in Port, NEW n \in Service
  PROVE  Handled(r, Register(r, port, n), port)
BY RegisterSapIs, RegisterSppIs DEF Register, Port

LEMMA DeregisterIs ==
  ASSUME NEW r, Sound(r, {}, NONE), NEW port \in Port
  PROVE  Handled(r, Deregister(r, port), port) /\ Deregister(r, port).name[port] = NONE
<1>1. CASE port \in Sap
  BY <1>1, DeregisterSapIs, HandledGone DEF Deregister, Gone
<1>2. CASE port \notin Sap
  <2>1. port \in Spp
    BY <1>2 DEF Port
  <2> QED BY <1>2, <2>1, DeregisterSppIs, HandledGone DEF Deregister, Gone
<1> QED BY <1>1, <1>2
-----------------------------------------------------------------------------
(* The steps.                                                              *)

LEMMA InitSound == Init => Inv
<1> SUFFICES ASSUME Init PROVE Inv
  OBVIOUS
<1>1. /\ NONE \notin Spp /\ NONE \notin Service /\ NONE \notin Sap
      /\ \A p \in Spp : p \in Port
  BY PortAssumption DEF Port
<1>2. /\ reg.name = [p \in Port |-> NONE] /\ reg.provider = [n \in Service |-> NONE]
      /\ reg.waiting = [n \in Service |-> <<>>] /\ reg.sapEnd = [s \in Sap |-> NoEnd]
      /\ reg.sppEnds = [p \in Spp |-> [i \in 1 .. NumFarEnd[p] |-> NONE]]
      /\ reg.fatal = FALSE
      /\ reg = [name |-> reg.name, provider |-> reg.provider, waiting |-> reg.waiting,
                sapEnd |-> reg.sapEnd, sppEnds |-> reg.sppEnds, fatal |-> reg.fatal]
  BY DEF Init
<1>3. Shape(reg)
  <2>1. reg.waiting \in [Service -> Seq(Sap)]
    BY <1>2
  <2>2. reg.name \in [Port -> Service \cup {NONE}] /\ reg.provider \in [Service -> Spp \cup {NONE}]
    BY <1>2
  <2>3. EndsTyped(reg.sapEnd, reg.sppEnds)
    BY <1>2 DEF EndsTyped
  <2> QED BY <1>2, <2>1, <2>2, <2>3 DEF Shape, EndsTyped
<1>4. Mirror(reg)
  <2> SUFFICES ASSUME NEW s \in Sap, NEW p \in Spp, NEW i \in 1 .. NumFarEnd[p]
               PROVE  (reg.sapEnd[s] = [port |-> p, index |-> i]) <=> (reg.sppEnds[p][i] = s)
    BY DEF Mirror
  <2>1. reg.sapEnd[s] = NoEnd /\ reg.sppEnds[p][i] = NONE
    BY <1>2
  <2>2. NoEnd # [port |-> p, index |-> i]
    BY <1>1 DEF NoEnd
  <2> QED BY <1>1, <2>1, <2>2
<1>5. Provided(reg)
  BY <1>1, <1>2 DEF Provided
<1>6. \A n \in Service : reg.waiting[n] = <<>> /\ Range(reg.waiting[n]) = {}
  BY <1>2 DEF Range
<1>7. BoundByName(reg, {}) /\ WaitsByName(reg, {})
  BY <1>2, <1>6 DEF BoundByName, WaitsByName
<1>8. WaitsOnce(reg)
  BY <1>6 DEF WaitsOnce, IsInjective
<1>9. Everyone(reg, {}) /\ NoneIdle(reg, NONE)
  <2>1. \A s \in Sap : reg.name[s] = NONE
    BY <1>2 DEF Port
  <2> QED BY <1>1, <1>6, <2>1 DEF Everyone, NoneIdle
<1>10. Unnamed
  BY <1>2 DEF Unnamed
<1>11. exists \subseteq Port
  BY DEF Init
<1> QED BY <1>2, <1>3, <1>4, <1>5, <1>7, <1>8, <1>9, <1>10, <1>11 DEF Inv, Sound

\* A step keeps the invariant and is fair to those that wait.
LEMMA StepSound == Inv /\ [Next]_vars => Inv' /\ (AllFit => Fair(reg, reg'))
<1> SUFFICES ASSUME Inv, [Next]_vars PROVE Inv' /\ (AllFit => Fair(reg, reg'))
  OBVIOUS
<1> Sound(reg, {}, NONE) /\ exists \subseteq Port /\ Unnamed
  BY DEF Inv
<1>1. ASSUME NEW port \in Port, Handled(reg, reg', port), exists' \subseteq Port,
             \/ exists \subseteq exists' /\ port \in exists'
             \/ exists \ {port} \subseteq exists' /\ reg'.name[port] = NONE
      PROVE  Inv' /\ (AllFit => Fair(reg, reg'))
  <2>1. ASSUME NEW q \in Port \ exists' PROVE reg'.name[q] = NONE
    BY <1>1, <2>1 DEF Unnamed, Handled
  <2>2. Unnamed'
    BY <2>1 DEF Unnamed
  <2>3. Sound(reg', {}, NONE) /\ (AllFit => Fair(reg, reg'))
    BY <1>1 DEF Handled
  <2> QED BY <1>1, <2>2, <2>3 DEF Inv
<1>2. ASSUME NEW port \in Port, Create(port) PROVE Inv' /\ (AllFit => Fair(reg, reg'))
  <2>1. Handled(reg, reg', port)
    <3>1. CASE Automatic[port] = NONE
      BY <1>2, <3>1, HandledSame DEF Create
    <3>2. CASE Automatic[port] # NONE
      <4>1. Automatic[port] \in Service
        BY <3>2, PortAssumption
      <4> QED BY <1>2, <3>2, <4>1, RegisterIs DEF Create
    <3> QED BY <3>1, <3>2
  <2>2. exists' \subseteq Port /\ exists \subseteq exists' /\ port \in exists'
    BY <1>2 DEF Create
  <2> QED BY <1>1, <2>1, <2>2
<1>3. ASSUME NEW port \in Port, Destroy(port) PROVE Inv' /\ (AllFit => Fair(reg, reg'))
  <2>1. Handled(reg, reg', port) /\ reg'.name[port] = NONE
    BY <1>3, DeregisterIs DEF Destroy
  <2>2. exists' \subseteq Port /\ exists \ {port} \subseteq exists'
    BY <1>3 DEF Destroy
  <2> QED BY <1>1, <2>1, <2>2
<1>4. ASSUME NEW port \in Port, UserDeregisters(port)
      PROVE  Inv' /\ (AllFit => Fair(reg, reg'))
  <2>1. Handled(reg, reg', port)
    BY <1>4, DeregisterIs DEF UserDeregisters
  <2>2. exists' \subseteq Port /\ exists \subseteq exists' /\ port \in exists'
    BY <1>4 DEF UserDeregisters
  <2> QED BY <1>1, <2>1, <2>2
<1>5. ASSUME NEW port \in Port, NEW n \in Service, UserRegisters(port, n)
      PROVE  Inv' /\ (AllFit => Fair(reg, reg'))
  <2>1. Handled(reg, reg', port)
    BY <1>5, RegisterIs DEF UserRegisters
  <2>2. exists' \subseteq Port /\ exists \subseteq exists' /\ port \in exists'
    BY <1>5 DEF UserRegisters
  <2> QED BY <1>1, <2>1, <2>2
<1>6. CASE UNCHANGED vars
  <2>1. reg' = reg /\ exists' = exists
    BY <1>6 DEF vars
  <2>2. Unnamed'
    BY <2>1 DEF Unnamed
  <2> QED BY <2>1, <2>2, FairSame DEF Inv
<1> QED BY <1>2, <1>3, <1>4, <1>5, <1>6 DEF Next

\* The inductive invariant: far ends, queues and names agree, and when every SAP fits every SPP
\* all that are registered are bound or wait, and none waits beside a free far end.
THEOREM Invariance == Spec => []Inv
BY InitSound, StepSound, PTL DEF Spec

\* The types: a far end of a SAP is one that its SPP has, and only SAPs are in the queues.
THEOREM Typing == Spec => []TypeOK
<1>1. Inv => TypeOK
  BY DEF Inv, TypeOK, Sound
<1> QED BY <1>1, Invariance, PTL

\* The two halves of a binding agree, with each other and with the maps of names and of
\* providers; no FATAL is reached; and of a destroyed port there is no trace, however ports
\* are registered, renamed and destroyed (umlrtprotocol.cc, bindServicePort and
\* unbindServicePort of the frame service).
THEOREM Bindings == Spec => []BindingsSound
<1>1. Inv => BindingsSound
  <2> SUFFICES ASSUME Inv PROVE FarEndsMirror /\ NoDanglingPort
    BY DEF BindingsSound
  <2>1. Sound(reg, {}, NONE) /\ Shape(reg) /\ Unnamed
    BY DEF Inv, Sound
  <2>2. FarEndsMirror
    BY <2>1 DEF Sound, Mirror, Provided, BoundByName, FarEndsMirror
  <2>3. NONE \notin Service /\ NONE \notin Port /\ Sap \cap Spp = {} /\ Port = Sap \cup Spp
    BY PortAssumption DEF Port
  <2>4. ASSUME NEW port \in Port \ exists
        PROVE  /\ reg.name[port] = NONE
               /\ \A n \in Service : reg.provider[n] # port /\ port \notin Range(reg.waiting[n])
               /\ \A p \in Spp : port \notin Range(reg.sppEnds[p])
               /\ \A s \in Sap : reg.sapEnd[s].port # port
    <3>1. reg.name[port] = NONE
      BY <2>1 DEF Unnamed
    <3>2. ASSUME NEW n \in Service PROVE reg.provider[n] # port
      <4>1. reg.provider[n] \in Spp \cup {NONE}
        BY <2>1 DEF Shape
      <4> QED BY <2>1, <2>3, <3>1, <4>1 DEF Sound, Provided
    <3>3. ASSUME NEW n \in Service PROVE port \notin Range(reg.waiting[n])
      BY <2>1, <2>3, <3>1 DEF Sound, WaitsByName
    <3>4. \A s \in Sap : reg.sapEnd[s].port # port
      <4> SUFFICES ASSUME NEW s \in Sap, reg.sapEnd[s].port = port PROVE FALSE
        OBVIOUS
      <4>1. reg.sapEnd[s] # NoEnd
        BY <2>1, <2>3, EndIs
      <4>2. reg.name[s] \in Service /\ reg.provider[reg.name[s]] = port
        BY <2>1, <4>1 DEF Sound, BoundByName
      <4> QED BY <3>2, <4>2
    <3>5. ASSUME NEW p \in Spp, port \in Range(reg.sppEnds[p]) PROVE FALSE
      <4>1. PICK i \in 1 .. NumFarEnd[p] : reg.sppEnds[p][i] = port
        BY <2>1, <3>5 DEF Shape, Range
      <4>2. port \in Sap
        <5>1. reg.sppEnds[p][i] \in Sap \cup {NONE}
          BY <2>1 DEF Shape
        <5>2. port # NONE
          BY <2>3
        <5> QED BY <4>1, <5>1, <5>2
      <4>3. reg.sapEnd[port] = [port |-> p, index |-> i]
        BY <2>1, <4>1, <4>2 DEF Sound, Mirror
      <4>4. p # NONE
        BY <2>3
      <4>5. reg.sapEnd[port] # NoEnd
        BY <4>3, <4>4 DEF NoEnd
      <4> QED BY <2>1, <2>3, <3>1, <4>2, <4>5 DEF Sound, BoundByName
    <3> QED BY <3>1, <3>2, <3>3, <3>4, <3>5
  <2>5. NoDanglingPort
    BY <2>4 DEF NoDanglingPort
  <2> QED BY <2>2, <2>5
<1> QED BY <1>1, Invariance, PTL

\* When every SAP fits every SPP, a registered SAP is bound or waits once, under its own name,
\* and none waits beside a free far end of its service.  (One that does not fit is taken from
\* the queue and forgotten, umlrtprotocol.cc:70.)
THEOREM Waiting == AllFit => (Spec => []NoneWaitsInVain)
<1> SUFFICES ASSUME AllFit PROVE Spec => []NoneWaitsInVain
  OBVIOUS
<1>1. Inv => NoneWaitsInVain
  <2> SUFFICES ASSUME Inv PROVE NoneForgotten /\ NoIdleFarEnd
    BY DEF NoneWaitsInVain
  <2>1. Sound(reg, {}, NONE) /\ Shape(reg) /\ Everyone(reg, {}) /\ NoneIdle(reg, NONE)
    BY DEF Inv, Sound
  <2>2. NONE \notin Service
    BY PortAssumption
  <2>3. NoIdleFarEnd
    BY <2>1, <2>2 DEF NoneIdle, NoIdleFarEnd
  <2>4. ASSUME NEW s \in Sap, NEW n \in Service
        PROVE  Cardinality({i \in DOMAIN reg.waiting[n] : reg.waiting[n][i] = s}) =
                 IF reg.name[s] = n /\ reg.sapEnd[s] = NoEnd THEN 1 ELSE 0
    <3> DEFINE places == {i \in DOMAIN reg.waiting[n] : reg.waiting[n][i] = s}
    <3>1. CASE s \in Range(reg.waiting[n])
      <4>1. reg.name[s] = n /\ reg.sapEnd[s] = NoEnd /\ IsInjective(reg.waiting[n])
        BY <2>1, <3>1 DEF Sound, WaitsByName, WaitsOnce
      <4>2. PICK i \in DOMAIN reg.waiting[n] : reg.waiting[n][i] = s
        BY <3>1 DEF Range
      <4>3. places = {i}
        BY <4>1, <4>2 DEF IsInjective
      <4>4. Cardinality({i}) = 1
        BY FS_Singleton
      <4> QED BY <4>1, <4>3, <4>4
    <3>2. CASE s \notin Range(reg.waiting[n])
      <4>1. ~ (reg.name[s] = n /\ reg.sapEnd[s] = NoEnd)
        BY <2>1, <3>2 DEF Everyone
      <4>2. places = {}
        BY <3>2 DEF Range
      <4>3. Cardinality({}) = 0
        BY FS_EmptySet
      <4> QED BY <4>1, <4>2, <4>3
    <3> QED BY <3>1, <3>2
  <2>5. NoneForgotten
    BY <2>4 DEF NoneForgotten
  <2> QED BY <2>3, <2>5
<1> QED BY <1>1, Invariance, PTL

LEMMA AheadIs ==
  ASSUME NEW r, NEW n, r.waiting[n] \in Seq(Sap), IsInjective(r.waiting[n]),
         NEW s \in Range(r.waiting[n]), NEW t
  PROVE  t \in Ahead(r, n, s) <=> Before(r.waiting[n], t, s)
<1> DEFINE q == r.waiting[n]
           i == CHOOSE i \in DOMAIN q : q[i] = s
<1>1. DOMAIN q = 1 .. Len(q) /\ Len(q) \in Nat
  OBVIOUS
<1>2. i \in DOMAIN q /\ q[i] = s
  BY DEF Range
<1>3. Ahead(r, n, s) = {q[j] : j \in 1 .. i - 1}
  BY DEF Ahead
<1> HIDE DEF i
<1>4. \A k \in DOMAIN q : q[k] = s => k = i
  BY <1>2 DEF IsInjective
<1> HIDE DEF q
<1>5. \A j : j \in 1 .. i - 1 <=> j \in 1 .. Len(q) /\ j < i
  BY <1>1, <1>2
<1>6. t \in {q[j] : j \in 1 .. i - 1} <=> Before(q, t, s)
  BY <1>1, <1>2, <1>4, <1>5 DEF Before
<1> QED BY <1>3, <1>6 DEF q

\* When every SAP fits every SPP, none that came later gets ahead of one that waits or is bound
\* before it: also not when it is renamed, when a far end becomes free, when the SPP leaves and
\* those that were bound queue up behind, and when another SPP takes the name.
THEOREM Order == AllFit => (Spec => NoOvertaking)
<1> SUFFICES ASSUME AllFit PROVE Spec => NoOvertaking
  OBVIOUS
<1> DEFINE Passed ==
      \A n \in Service :
        \A s \in Range(reg.waiting[n]) \cap Range(reg'.waiting[n]) :
          \A t \in Sap \ (Ahead(reg, n, s) \cup {s}) :
            /\ t \notin Ahead(reg', n, s)
            /\ reg'.name[t] = n /\ reg'.sapEnd[t] # NoEnd =>
                 reg.name[t] = n /\ reg.sapEnd[t] # NoEnd
<1>1. Inv /\ [Next]_vars => Passed
  <2> SUFFICES ASSUME Inv, [Next]_vars,
                      NEW n \in Service,
                      NEW s \in Range(reg.waiting[n]) \cap Range(reg'.waiting[n]),
                      NEW t \in Sap \ (Ahead(reg, n, s) \cup {s})
               PROVE  /\ t \notin Ahead(reg', n, s)
                      /\ reg'.name[t] = n /\ reg'.sapEnd[t] # NoEnd =>
                           reg.name[t] = n /\ reg.sapEnd[t] # NoEnd
    OBVIOUS
  <2>1. Fair(reg, reg') /\ Sound(reg, {}, NONE) /\ Sound(reg', {}, NONE)
    BY StepSound DEF Inv
  <2>2. /\ reg.waiting[n] \in Seq(Sap) /\ IsInjective(reg.waiting[n])
        /\ reg'.waiting[n] \in Seq(Sap) /\ IsInjective(reg'.waiting[n])
    BY <2>1 DEF Sound, Shape, WaitsOnce
  <2>3. ~ Before(reg.waiting[n], t, s)
    BY <2>2, AheadIs
  <2>4. /\ Before(reg'.waiting[n], t, s) => Before(reg.waiting[n], t, s)
        /\ IsBound(reg', n, t) => IsBound(reg, n, t) \/ Before(reg.waiting[n], t, s)
    BY <2>1 DEF Fair
  <2>5. t \notin Ahead(reg', n, s)
    BY <2>2, <2>3, <2>4, AheadIs
  <2> QED BY <2>3, <2>4, <2>5 DEF IsBound
<1>2. Inv /\ [Next]_vars => [Passed]_vars
  BY <1>1
<1>3. NoOvertaking <=> [][Passed]_vars
  BY PTL DEF NoOvertaking
<1> HIDE DEF Passed
<1> QED BY <1>2, <1>3, Invariance, PTL DEF Spec
=============================================================================
