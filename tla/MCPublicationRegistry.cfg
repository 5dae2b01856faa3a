\* The two tracks of a screen, which are published and closed together.
CONSTANTS
  Requests = {r1, r2}
  Sessions = {s1, s2}
  Sources = {video, audio}
  ScreenVideo = video
  ScreenAudio = audio
  None = None
  NoAtt = NoAtt
SPECIFICATION Spec
SYMMETRY Symmetry
CONSTRAINT StillPromised
INVARIANT TypeOK
INVARIANT ViewFaithful
INVARIANT InCallOnly
INVARIANT ReservationOwned
INVARIANT OneBySource
INVARIANT UnpublishedFirst
PROPERTY AnnouncedOnce
