\* Two names, two vectors, three slots: updates, tombstones and a compaction
\* that renumbers a live slot all fit. NoMeta = m1: metadata has one value here, and
\* aux, written in place the same way, is the payload that varies.
CONSTANTS
  Id = {i1, i2}
  Vec = {v1, v2}
  Aux = {x1}
  Meta = {m1}
  NoVec = NoVec
  NoAux = NoAux
  NoMeta = m1
  NoRecord = NoRecord
  Zero = Zero
  MaxSlots = 3
SPECIFICATION Spec
SYMMETRY Symmetry
INVARIANTS TypeOK IndexInv DirtyCoversDelta
PROPERTIES SlotIdentity ImplementsMap
