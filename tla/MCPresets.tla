----------------------------- MODULE MCPresets ------------------------------
(* A TLC instance of Presets: for every field the default, values on both      *)
(* sides of what is allowed, and those that other fields depend on.            *)
EXTENDS Presets

NoURL == [scheme |-> "none", host |-> "none", addrs |-> {}]

Body(type, raws, urls, exts) == [type : {type}, raw : raws, url : urls, ext : exts]

Downloads == Body("download",
  [mode : {Absent, "audio", "both"}, format_id : {Absent, "plain", "merge", "bad"},
   audio_format : {Absent, "mp3", "mp4"}, audio_bitrate : {Absent, "64", "65"},
   container : {Absent, "webm", "avi"}, retention_days : {Absent, 2}],
  [scheme : {"https", "ftp"}, host : {"name"}, addrs : {{}}] \cup
  [scheme : {"http"}, host : {"literal"}, addrs : {{"public"}, {"internal"}}] \cup
  [scheme : {"http"}, host : {"malformed"}, addrs : {{}}],
  {""})

Converts == Body("convert",
  [preset : {Absent, "quality", "balanced", "speed", "size", "fancy"},
   container : {Absent, "webm", "mkv", "avi"}, video_codec : VideoCodecs \cup {Absent, "mpeg2"},
   speed : {Absent, "slow", "warp"}, crf : {Absent, 14, 40, 51}, resolution : {Absent, "720"},
   frame_rate : {Absent, "30"}, audio_codec : AudioCodecs \cup {Absent, "ac3"},
   audio_bitrate : {Absent, "63"}, retention_days : {Absent}],
  {NoURL}, {"mp4"})

Compressions == Body("compress",
  [target : {Absent, "light", "target_size", "tiny"}, target_size_mb : {Absent, -1, 1, 100, 65536, 65537},
   container : {Absent, "webm"}, video_codec : {Absent, "vp9", "av1", "copy"},
   speed : {Absent, "warp"}, resolution : {Absent, "720"}, audio_bitrate : {Absent, "320", "63"},
   retention_days : {Absent, 0, 2}],
  {NoURL}, {"mp4"})

Images == Body("image",
  [format : {Absent, "source", "jpg", "svg", "svg_trace", "bmp"}, trace : {Absent, "light", "none"},
   quality : {Absent, 0, -1, 101}, width : {Absent, 640, 20001}, height : {Absent, -1},
   retention_days : {Absent}],
  {NoURL}, {"jpeg", "svg", "heic", ""})

Edits == Body("edit",
  [start : {Absent, -1, 1, 16, EditMax}, end : {Absent, 1, 2, 3, EditMax + 1},
   crop_x : {Absent, 3, -1}, crop_y : {Absent, 3}, crop_w : {Absent, 15, 16, 17, 20001, 20002},
   crop_h : {Absent, 1, 33}, retention_days : {Absent}],
  {NoURL}, {"mov", "mp3", "webm"})

AllRequests == Downloads \cup Converts \cup Compressions \cup Images \cup Edits
SomeAnswers == {{}, {"public"}, {"internal"}, {"public", "internal"}}
=============================================================================
