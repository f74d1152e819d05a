SPECIFICATION FairSpec
CONSTANTS
  Shells = {s1, s2}
  MaxPid = 5
  MaxCommands = 2
  WebAv = "c910"
  Commands = {"start_mjpgstrm", "startMJPGStreamer", "stop_mjpgstrm", "timelapse_start", "startRecSnapshots", "timelapse_stop", "rec_video_start", "startrecmjpg", "stoprecmjpg", "via_rec_av_start", "via_rec_av_stop", "startGstrmAV", "via_rec_audio_start", "startGstrmA", "via_rec_audio_stop", "service_start", "service_stop"}
INVARIANT TypeOK
PROPERTIES StopLeavesNone HandedOver ServiceStopEnds
CHECK_DEADLOCK FALSE
