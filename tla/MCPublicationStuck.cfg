\* The code against the promise that a failure cancels its reservation.
CONSTANTS
  Requests = {r1, r2}
  Sessions = {s1, s2}
  Sources = {video, audio}
  ScreenVideo = video
  ScreenAudio = audio
  None = None
  NoAtt = NoAtt
SPECIFICATION Spec
INVARIANT FailuresCancel
