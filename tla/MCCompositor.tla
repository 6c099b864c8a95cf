---------------------------- MODULE MCCompositor ----------------------------
(* A small instance of Compositor. *)
EXTENDS Compositor

MCWidths == {1, 2}

\* Once the UI stops changing the screen catches up, and creating or destroying a
\* surface completes (frame_scheduler.cpp, beginFrame; compositor.cpp, raster;
\* android_jni_bridge.cpp, nativeInit and nativeDestroy).
UiReachesScreen == ScreenCatchesUp /\ SurfaceSettles
=============================================================================
