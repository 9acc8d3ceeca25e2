\* Likes of ids that no post has yet; the pager is not in the way.
SPECIFICATION Spec
CONSTANTS
  Authors = {a1, a2}
  Threads = {t1}
  Limit = 1
  MaxPosts = 3
  MaxTime = 2
  MaxLikes = 1
PROPERTIES NewPostHasNoLikes
